---------------------------- MODULE Spec2Model ----------------------------
(***************************************************************************)
(* Oil price monitoring core of MfcOilAlert: the adaptive HTTP poller      *)
(* (utils/http_client.py), the change detector, the history store and the  *)
(* orchestrator (utils/price_monitor.py).                                  *)
(*                                                                         *)
(* Conventions.                                                            *)
(*  - Prices are counted in hundredths of a currency unit; the default    *)
(*    threshold 0.01 is therefore 1.  The program holds a price of p       *)
(*    hundredths as the double nearest to p/100, and the threshold test    *)
(*    is evaluated as the program evaluates it, in doubles                 *)
(*    (change_reaches_threshold).  The price_change fields of an event     *)
(*    are kept as exact differences in hundredths.                         *)
(*  - A quotient (price_change_percent) is kept as a reduced fraction      *)
(*    [num, den].                                                          *)
(*  - Python's None is the record None; every optional value is a record   *)
(*    so that it can be compared with None.                                *)
(*  - time.time() is the variable now.  Every call that stores a clock     *)
(*    reading advances it by one tick first: wall-clock readings taken in  *)
(*    two different calls (separated by an HTTP round trip) are distinct   *)
(*    and increasing.  SpecClock drops this: there two successive calls    *)
(*    may read the same value.                                             *)
(*  - OilPriceData.timestamp is never read by the monitor and is left out. *)
(*  - The bot (src/bot.py) runs its coroutines on one asyncio event loop:  *)
(*    bot.running names the coroutine that holds the loop, and a coroutine *)
(*    gives the loop up only at an await.  In SpecBot the clock counts     *)
(*    seconds, a call of check_for_updates takes no time and time passes   *)
(*    while the coroutines are suspended, asleep or awaiting Discord.      *)
(***************************************************************************)
EXTENDS Integers, Sequences, FiniteSets, TLC

VARIABLES
    current_price,       \* OilPriceMonitor.current_price: None or [price, cycle]
    last_change_event,   \* OilPriceMonitor.last_change_event: None or an event
    price_history,       \* OilPriceMonitor.price_history: sequence of entries
    monitoring_active,   \* OilPriceMonitor.monitoring_active
    change_threshold,    \* OilPriceMonitor.change_threshold
    storage,             \* the file named by storage_file
    http_client,         \* OilPriceMonitor.http_client: the poller's fields
    now,                 \* the last reading of time.time()
    call,                \* the last operation: its inputs and what it returned
    bot                  \* src/bot.py: the monitoring task and a !check command

vars == <<current_price, last_change_event, price_history, monitoring_active,
          change_threshold, storage, http_client, now, call, bot>>

-----------------------------------------------------------------------------
(* Bounds of the model. *)

MaxPrice == 2
MaxCycle == 3
MaxThreshold == 1
MaxTime == 3
MaxNoChange == 1
MaxPolls == 4
MaxAppends == 1500
MaxHistory == 3
MaxTicks == 3

(* Program constants. *)

HistoryCap == 1000
max_consecutive_no_changes == 3
RelaxFactor == 3
base_polling_interval == 300
default_sleep == 300
error_sleep == 60

None == [none |-> TRUE]
\* An optional number that is present.
Just(v) == [value |-> v]

Prices == 0..MaxPrice
Cycles == 1..MaxCycle
Thresholds == 1..MaxThreshold

OilPriceData(p, c) == [price |-> p, cycle |-> c]

-----------------------------------------------------------------------------
(* Arithmetic helpers. *)

Abs(x) == IF x < 0 THEN -x ELSE x

RECURSIVE Gcd(_, _)
Gcd(a, b) == IF b = 0 THEN a ELSE Gcd(b, a % b)

\* The float quotient (n / d) * 100 as a reduced fraction; d # 0.
PercentOf(n, d) ==
    LET g == Gcd(Abs(100 * n), Abs(d))
        s == IF d < 0 THEN -1 ELSE 1
    IN  [num |-> (s * 100 * n) \div g, den |-> (s * d) \div g]

ZeroPercent == [num |-> 0, den |-> 1]

-----------------------------------------------------------------------------
(* Response bodies.  A body is the text of a response: a JSON array of     *)
(* records ([json |-> <<...>>]) or a text that is no JSON ([text |-> s]).  *)

JsonBody(records) == [json |-> records]
SingleBody(p, c) == JsonBody(<<OilPriceData(p, c)>>)

EmptyArrayBody == JsonBody(<<>>)
MissingCycleBody == JsonBody(<<[price |-> 1]>>)
InvalidJsonBody == [text |-> "invalid json string"]
EmptyTextBody == [text |-> ""]

\* Two texts, neither of them JSON, whose SHA-256 digests begin with the
\* same 16 hex digits.
CollidingBodyA == [text |-> "4f16550f551ff97b"]
CollidingBodyB == [text |-> "0464fea946bc1705"]
CollidingBodies == {CollidingBodyA, CollidingBodyB}

\* Two records: the second has the higher cycle.
AscendingBody == JsonBody(<<OilPriceData(1, 1), OilPriceData(2, 2)>>)
\* Two records with the same (highest) cycle: the first seen wins.
TieBody == JsonBody(<<OilPriceData(1, MaxCycle), OilPriceData(2, MaxCycle)>>)

SingleBodies == {SingleBody(p, c) : p \in Prices, c \in Cycles}
MalformedBodies == {EmptyArrayBody, MissingCycleBody, InvalidJsonBody}
MultiBodies == {AscendingBody, TieBody}


-----------------------------------------------------------------------------
(* Price Parser (price_parser.py): the latest price of a payload is the    *)
(* record with the highest cycle, the first one seen among equals; a       *)
(* payload that is no JSON, an empty array, or records lacking price or    *)
(* cycle make it fail.                                                     *)

ParseError == [exception |-> "ValueError"]

ValidRecord(r) == DOMAIN r = {"price", "cycle"}

RECURSIVE MaxCycleRecord(_, _)
\* The first record of recs with the highest cycle, best being the best so far.
MaxCycleRecord(recs, best) ==
    IF recs = <<>> THEN best
    ELSE MaxCycleRecord(Tail(recs),
                        IF Head(recs).cycle > best.cycle THEN Head(recs) ELSE best)

get_latest_price(content) ==
    IF "json" \notin DOMAIN content THEN ParseError
    ELSE LET recs == content.json
             valid == SelectSeq(recs, ValidRecord)
         IN  IF recs = <<>> \/ valid = <<>> THEN ParseError
             ELSE LET best == MaxCycleRecord(Tail(valid), Head(valid))
                  IN  OilPriceData(best.price, best.cycle)

IsParseError(x) == "exception" \in DOMAIN x

-----------------------------------------------------------------------------
(* Adaptive HTTP poller (OilPriceHTTPClient). *)

relaxed_polling_interval == base_polling_interval * RelaxFactor

\* OilPriceHTTPClient.__init__
NewHttpClient ==
    [last_content_hash        |-> None,
     last_response_time       |-> None,
     last_etag                |-> None,
     last_modified            |-> None,
     consecutive_no_changes   |-> 0,
     current_polling_interval |-> base_polling_interval]

\* The first 16 hex digits of the SHA-256 of the text.  Sixty-four bits do
\* not tell all texts apart: the two colliding bodies have one digest.  The
\* digests of the other bodies of the model differ from each other.
calculate_content_hash(content) ==
    IF content \in CollidingBodies
    THEN [sha256_16 |-> [hex |-> "95a9ab5bbebb232d"]]
    ELSE [sha256_16 |-> content]

\* A response of the server, or the exception session.get raised.
\* headers: the ETag and Last-Modified headers, None when the header is absent.
HttpResponse(status, body, etag, modified) ==
    [kind |-> "response", status_code |-> status, text |-> body,
     ETag |-> etag, LastModified |-> modified]
RequestFailure(exc) == [kind |-> exc]

RequestExceptions == {"Timeout", "ConnectionError", "RequestException", "Exception"}

\* Variant: the fingerprint of the new body is not stored.
update_content_metadata_keep_hash(client, content_hash, response, t) ==
    [client EXCEPT
        !.last_response_time = Just(t),
        !.last_etag = IF response.ETag # None THEN response.ETag ELSE @,
        !.last_modified = IF response.LastModified # None
                          THEN response.LastModified ELSE @]

\* Variant: the validators of a changed response are not stored.
update_content_metadata_no_validators(client, content_hash, response, t) ==
    [client EXCEPT
        !.last_content_hash = content_hash,
        !.last_response_time = Just(t)]

\* _update_content_metadata
update_content_metadata(client, content_hash, response, t) ==
    [client EXCEPT
        !.last_content_hash = content_hash,
        !.last_response_time = Just(t),
        !.last_etag = IF response.ETag # None THEN response.ETag ELSE @,
        !.last_modified = IF response.LastModified # None
                          THEN response.LastModified ELSE @]

\* Variant: the interval relaxes one no-change sample late.
update_polling_interval_late(client, content_changed) ==
    IF content_changed
    THEN [client EXCEPT !.current_polling_interval = base_polling_interval,
                        !.consecutive_no_changes = 0]
    ELSE LET n == client.consecutive_no_changes + 1
         IN  [client EXCEPT
                 !.consecutive_no_changes = n,
                 !.current_polling_interval =
                     IF n > max_consecutive_no_changes
                     THEN relaxed_polling_interval ELSE @]

\* _update_polling_interval
update_polling_interval(client, content_changed) ==
    IF content_changed
    THEN [client EXCEPT !.current_polling_interval = base_polling_interval,
                        !.consecutive_no_changes = 0]
    ELSE LET n == client.consecutive_no_changes + 1
         IN  [client EXCEPT
                 !.consecutive_no_changes = n,
                 !.current_polling_interval =
                     IF n >= max_consecutive_no_changes
                     THEN relaxed_polling_interval ELSE @]

\* The headers fetch_oil_prices sends with the request.
prepare_conditional_headers(client) ==
    [IfNoneMatch |-> client.last_etag,
     IfModifiedNotSince |-> client.last_modified]

ErrorText(response) ==
    CASE response.kind = "response" -> <<"HTTP", response.status_code>>
      [] response.kind = "Timeout" -> <<"timeout">>
      [] response.kind = "ConnectionError" -> <<"connection_error">>
      [] response.kind = "RequestException" -> <<"request_error">>
      [] OTHER -> <<"unexpected_error">>

\* Variant: an unexpected status is reported without an error.
fetch_oil_prices_silent_status(client, response, t) ==
    IF response.kind # "response"
    THEN [client |-> client, has_changed |-> FALSE, content |-> None,
          response_info |-> [error |-> ErrorText(response)]]
    ELSE IF response.status_code = 304
    THEN [client |-> update_polling_interval(client, FALSE),
          has_changed |-> FALSE, content |-> None,
          response_info |-> [status_code |-> 304]]
    ELSE IF response.status_code = 200
    THEN LET content == response.text
             content_hash == calculate_content_hash(content)
             has_changed == content_hash # client.last_content_hash
         IN  [client |-> IF has_changed
                         THEN update_polling_interval(
                                  update_content_metadata(client, content_hash,
                                                          response, t), TRUE)
                         ELSE update_polling_interval(client, FALSE),
              has_changed |-> has_changed, content |-> content,
              response_info |-> [status_code |-> 200]]
    ELSE [client |-> client, has_changed |-> FALSE, content |-> None,
          response_info |-> [status_code |-> response.status_code]]

\* Variant: a 304 clears the stored validators.
fetch_oil_prices_304_forgets(client, response, t) ==
    IF response.kind # "response"
    THEN [client |-> client, has_changed |-> FALSE, content |-> None,
          response_info |-> [error |-> ErrorText(response)]]
    ELSE IF response.status_code = 304
    THEN [client |-> [update_polling_interval(client, FALSE)
                         EXCEPT !.last_etag = None, !.last_modified = None],
          has_changed |-> FALSE, content |-> None,
          response_info |-> [status_code |-> 304]]
    ELSE IF response.status_code = 200
    THEN LET content == response.text
             content_hash == calculate_content_hash(content)
             has_changed == content_hash # client.last_content_hash
         IN  [client |-> IF has_changed
                         THEN update_polling_interval(
                                  update_content_metadata(client, content_hash,
                                                          response, t), TRUE)
                         ELSE update_polling_interval(client, FALSE),
              has_changed |-> has_changed, content |-> content,
              response_info |-> [status_code |-> 200]]
    ELSE [client |-> client, has_changed |-> FALSE, content |-> None,
          response_info |-> [status_code |-> response.status_code,
                             error |-> ErrorText(response)]]

\* Variant: a failed request counts as a no-change sample.
fetch_oil_prices_failure_is_sample(client, response, t) ==
    IF response.kind # "response"
    THEN [client |-> update_polling_interval(client, FALSE),
          has_changed |-> FALSE, content |-> None,
          response_info |-> [error |-> ErrorText(response)]]
    ELSE IF response.status_code = 304
    THEN [client |-> update_polling_interval(client, FALSE),
          has_changed |-> FALSE, content |-> None,
          response_info |-> [status_code |-> 304]]
    ELSE IF response.status_code = 200
    THEN LET content == response.text
             content_hash == calculate_content_hash(content)
             has_changed == content_hash # client.last_content_hash
         IN  [client |-> IF has_changed
                         THEN update_polling_interval(
                                  update_content_metadata(client, content_hash,
                                                          response, t), TRUE)
                         ELSE update_polling_interval(client, FALSE),
              has_changed |-> has_changed, content |-> content,
              response_info |-> [status_code |-> 200]]
    ELSE [client |-> client, has_changed |-> FALSE, content |-> None,
          response_info |-> [status_code |-> response.status_code,
                             error |-> ErrorText(response)]]

\* fetch_oil_prices when the request is answered by response at time t:
\* the poller afterwards and the tuple (has_changed, content, response_info).
fetch_oil_prices(client, response, t) ==
    IF response.kind # "response"
    THEN [client |-> client, has_changed |-> FALSE, content |-> None,
          response_info |-> [error |-> ErrorText(response)]]
    ELSE IF response.status_code = 304
    THEN [client |-> update_polling_interval(client, FALSE),
          has_changed |-> FALSE, content |-> None,
          response_info |-> [status_code |-> 304]]
    ELSE IF response.status_code = 200
    THEN LET content == response.text
             content_hash == calculate_content_hash(content)
             has_changed == content_hash # client.last_content_hash
         IN  [client |-> IF has_changed
                         THEN update_polling_interval(
                                  update_content_metadata(client, content_hash,
                                                          response, t), TRUE)
                         ELSE update_polling_interval(client, FALSE),
              has_changed |-> has_changed, content |-> content,
              response_info |-> [status_code |-> 200]]
    ELSE [client |-> client, has_changed |-> FALSE, content |-> None,
          response_info |-> [status_code |-> response.status_code,
                             error |-> ErrorText(response)]]

\* get_next_poll_time called at time t.
get_next_poll_time(client, t) ==
    IF client.last_response_time = None
    THEN t + base_polling_interval
    ELSE client.last_response_time.value + client.current_polling_interval

\* Variant: a reset leaves the polling interval as it was.
reset_polling_state_keep_interval(client) ==
    [NewHttpClient EXCEPT !.current_polling_interval = client.current_polling_interval]

reset_polling_state(client) == NewHttpClient


-----------------------------------------------------------------------------
(* Binary floating point.  A price of p hundredths is held by the program   *)
(* as the IEEE 754 double nearest to p/100, and price differences are       *)
(* computed and compared in doubles.  A positive double is a record         *)
(* [m, e]: m its 53 significand bits, most significant first, e the weight  *)
(* of the last bit, so that its value is m * 2^e.                           *)

MantissaBits == 53

RECURSIVE IntBits(_)
\* The binary digits of a natural number, most significant first.
IntBits(n) == IF n = 0 THEN <<>> ELSE Append(IntBits(n \div 2), n % 2)

Zeros(k) == [i \in 1..k |-> 0]

RECURSIVE StripZeros(_)
\* A bit string without its leading zeros.
StripZeros(bits) ==
    IF bits # <<>> /\ bits[1] = 0 THEN StripZeros(Tail(bits)) ELSE bits

RECURSIVE Increment(_)
\* A bit string plus one; one bit longer when every bit was 1.
Increment(bits) ==
    IF bits = <<>> THEN <<1>>
    ELSE IF bits[Len(bits)] = 0
    THEN Append(SubSeq(bits, 1, Len(bits) - 1), 1)
    ELSE Append(Increment(SubSeq(bits, 1, Len(bits) - 1)), 0)

\* Round to nearest, ties to even: the double for the significand m of
\* weight e followed by the bit round and, if sticky, further non-zero bits.
RoundToEven(m, e, round, sticky) ==
    IF round = 1 /\ (sticky \/ m[MantissaBits] = 1)
    THEN LET up == Increment(m)
         IN  IF Len(up) > MantissaBits
             THEN [m |-> SubSeq(up, 1, MantissaBits), e |-> e + 1]
             ELSE [m |-> up, e |-> e]
    ELSE [m |-> m, e |-> e]

RECURSIVE Expand(_, _, _)
\* The binary expansion of bits + r/100 continued until it has one bit more
\* than a significand: lead is the weight of the last bit of bits.
Expand(bits, r, lead) ==
    IF Len(bits) > MantissaBits THEN [bits |-> bits, r |-> r, e |-> lead]
    ELSE LET bit == IF 2 * r >= 100 THEN 1 ELSE 0
         IN  Expand(IF bits = <<>> /\ bit = 0 THEN bits ELSE Append(bits, bit),
                    (2 * r) % 100, lead - 1)

\* float(p / 100) for p > 0: the double nearest to p hundredths.
ToDouble(p) ==
    LET x == Expand(IntBits(p \div 100), p % 100, 0)
    IN  RoundToEven(SubSeq(x.bits, 1, MantissaBits), x.e + 1,
                    x.bits[MantissaBits + 1], x.r # 0)

RECURSIVE Borrow(_, _, _)
\* The borrow into position i (from the right end) of a - b.
Borrow(a, b, i) ==
    IF i > Len(a) THEN 0
    ELSE IF a[i] - b[i] - Borrow(a, b, i + 1) < 0 THEN 1 ELSE 0

\* a - b for bit strings of one length with a >= b.
Subtract(a, b) ==
    [i \in 1..Len(a) |-> (a[i] - b[i] - Borrow(a, b, i + 1) + 2) % 2]

\* x - y in doubles for x >= y > 0; None stands for 0.0.
DoubleMinus(x, y) ==
    LET k == x.e - y.e
        a == x.m \o Zeros(k)
        b == Zeros(k) \o y.m
        d == StripZeros(Subtract(a, b))
        n == Len(d)
    IN  IF n = 0 THEN None
        ELSE IF n <= MantissaBits
        THEN [m |-> d \o Zeros(MantissaBits - n), e |-> y.e - (MantissaBits - n)]
        ELSE RoundToEven(SubSeq(d, 1, MantissaBits), y.e + (n - MantissaBits),
                         d[MantissaBits + 1],
                         \E i \in (MantissaBits + 2)..n : d[i] = 1)

\* x >= y for positive doubles.
DoubleAtLeast(x, y) ==
    IF x.e # y.e THEN x.e > y.e
    ELSE LET differ == {i \in 1..MantissaBits : x.m[i] # y.m[i]}
         IN  \/ differ = {}
             \/ x.m[CHOOSE i \in differ : \A j \in differ : i <= j] = 1

\* abs(new_price - held_price) >= change_threshold as the program
\* evaluates it in doubles, for prices and a threshold in hundredths.  When
\* the exact difference is not the threshold the rounding errors (below
\* 1e-8 for the prices of the model's integer range) do not decide.
double_change_reaches_threshold(new_price, held_price, threshold) ==
    LET exact == Abs(new_price - held_price)
        hi == IF new_price >= held_price THEN new_price ELSE held_price
        lo == IF new_price >= held_price THEN held_price ELSE new_price
    IN  IF exact # threshold THEN exact > threshold
        ELSE IF threshold = 0 \/ lo = 0 THEN TRUE
        ELSE LET diff == DoubleMinus(ToDouble(hi), ToDouble(lo))
             IN  diff # None /\ DoubleAtLeast(diff, ToDouble(threshold))

\* The prices the detector is given: those of the bodies, and one beyond.
DetectPrices == 0..(MaxPrice + 1)

\* The changes of the model's prices that reach the threshold, worked out
\* once.
ReachingChanges ==
    UNION {IF double_change_reaches_threshold(x[1], x[2], x[3]) THEN {x} ELSE {}
              : x \in DetectPrices \X DetectPrices \X Thresholds}

\* abs(new_price - held_price) >= change_threshold
change_reaches_threshold(new_price, held_price, threshold) ==
    IF <<new_price, held_price, threshold>>
          \in DetectPrices \X DetectPrices \X Thresholds
    THEN <<new_price, held_price, threshold>> \in ReachingChanges
    ELSE double_change_reaches_threshold(new_price, held_price, threshold)


-----------------------------------------------------------------------------
(* Change detector (OilPriceMonitor._detect_price_change). *)

PriceChangeEvent(t, old_price, new_price, old_cycle, new_cycle, change, percent, type) ==
    [timestamp |-> t, old_price |-> old_price, new_price |-> new_price,
     old_cycle |-> old_cycle, new_cycle |-> new_cycle, price_change |-> change,
     price_change_percent |-> percent, event_type |-> type]

ZeroDivisionError == [exception |-> "ZeroDivisionError"]

IsException(x) == "exception" \in DOMAIN x
IsEvent(x) == "event_type" \in DOMAIN x

\* The event of the first price seen.
InitialEvent(new_price_data, t) ==
    PriceChangeEvent(t, None, new_price_data.price, None, new_price_data.cycle,
                     0, ZeroPercent, "initial")

\* The event of a change from current to new_price_data; current.price # 0.
UpdateEvent(current, new_price_data, t) ==
    PriceChangeEvent(t, Just(current.price), new_price_data.price,
                     Just(current.cycle), new_price_data.cycle,
                     new_price_data.price - current.price,
                     PercentOf(new_price_data.price - current.price, current.price),
                     "update")

\* Variant: any cycle other than the held one counts as new data.
detect_price_change_any_cycle(current, new_price_data, threshold, t) ==
    IF current = None THEN InitialEvent(new_price_data, t)
    ELSE IF new_price_data.cycle # current.cycle
    THEN IF current.price = 0 THEN ZeroDivisionError
         ELSE IF change_reaches_threshold(new_price_data.price, current.price, threshold)
         THEN UpdateEvent(current, new_price_data, t)
         ELSE None
    ELSE None

\* Variant: the held cycle itself counts as new data.
detect_price_change_same_cycle(current, new_price_data, threshold, t) ==
    IF current = None THEN InitialEvent(new_price_data, t)
    ELSE IF new_price_data.cycle >= current.cycle
    THEN IF current.price = 0 THEN ZeroDivisionError
         ELSE IF change_reaches_threshold(new_price_data.price, current.price, threshold)
         THEN UpdateEvent(current, new_price_data, t)
         ELSE None
    ELSE None

\* Variant: the first price is reported as an update.
detect_price_change_first_as_update(current, new_price_data, threshold, t) ==
    IF current = None
    THEN [InitialEvent(new_price_data, t) EXCEPT !.event_type = "update"]
    ELSE IF new_price_data.cycle > current.cycle
    THEN IF current.price = 0 THEN ZeroDivisionError
         ELSE IF change_reaches_threshold(new_price_data.price, current.price, threshold)
         THEN UpdateEvent(current, new_price_data, t)
         ELSE None
    ELSE None

\* _detect_price_change: the event, None, or the exception the call raises;
\* t is time.time().  The percentage is computed before the threshold test.
detect_price_change(current, new_price_data, threshold, t) ==
    IF current = None THEN InitialEvent(new_price_data, t)
    ELSE IF new_price_data.cycle > current.cycle
    THEN IF current.price = 0 THEN ZeroDivisionError
         ELSE IF change_reaches_threshold(new_price_data.price, current.price, threshold)
         THEN UpdateEvent(current, new_price_data, t)
         ELSE None
    ELSE None

-----------------------------------------------------------------------------
(* History store. *)

AbsentFile == [exists |-> FALSE]
CorruptFile == [exists |-> TRUE, corrupt |-> TRUE]
StoredFile(data) == [exists |-> TRUE, data |-> data]

HistoryEntry(t, price_data, event_type) ==
    [timestamp |-> t, timestamp_str |-> [iso |-> t],
     price |-> price_data.price, cycle |-> price_data.cycle,
     event_type |-> event_type]

\* What a write of the storage file can do: succeed; fail in open(), which
\* leaves the file as it was; fail in json.dump, after open() truncated it.
SaveOutcomes == {"ok", "open_failed", "dump_failed"}

\* Variant: a successful write stores only the newest entry.
save_price_history_delta(history, t, outcome, file) ==
    CASE outcome = "ok" ->
            StoredFile([last_updated |-> t, total_entries |-> 1,
                        history |-> <<history[Len(history)]>>])
      [] outcome = "open_failed" -> file
      [] OTHER -> CorruptFile

\* The storage file after _save_price_history.
save_price_history(history, t, outcome, file) ==
    CASE outcome = "ok" ->
            StoredFile([last_updated |-> t, total_entries |-> Len(history),
                        history |-> history])
      [] outcome = "open_failed" -> file
      [] OTHER -> CorruptFile

\* Variant: a failed read of an intact file still yields its history.
load_price_history_ignore_read_failure(file, read_ok) ==
    IF ~file.exists THEN <<>>
    ELSE IF "corrupt" \in DOMAIN file THEN <<>>
    ELSE file.data.history

\* price_history after _load_price_history.
load_price_history(file, read_ok) ==
    IF ~file.exists THEN <<>>
    ELSE IF "corrupt" \in DOMAIN file \/ ~read_ok THEN <<>>
    ELSE file.data.history

RECURSIVE MaxByTimestamp(_, _)
\* max(history, key=timestamp): the first entry with the largest timestamp.
MaxByTimestamp(entries, best) ==
    IF entries = <<>> THEN best
    ELSE MaxByTimestamp(Tail(entries),
                        IF Head(entries).timestamp > best.timestamp
                        THEN Head(entries) ELSE best)

\* Variant: a loaded history does not seed the held price.
initialize_current_price_unseeded(history) == None

\* current_price after _initialize_current_price.
initialize_current_price(history) ==
    IF history # <<>>
    THEN LET latest_entry == MaxByTimestamp(Tail(history), Head(history))
         IN  OilPriceData(latest_entry.price, latest_entry.cycle)
    ELSE None

\* price_history[-n:]
LastN(seq, n) ==
    IF Len(seq) <= n THEN seq ELSE SubSeq(seq, Len(seq) - n + 1, Len(seq))

\* Variant: the trim keeps the oldest entries.
add_to_history_keep_oldest(history, price_data, event_type, t) ==
    LET appended == Append(history, HistoryEntry(t, price_data, event_type))
    IN  IF Len(appended) > HistoryCap THEN SubSeq(appended, 1, HistoryCap)
        ELSE appended

\* price_history after the append and the trim of _add_to_history.
add_to_history(history, price_data, event_type, t) ==
    LET appended == Append(history, HistoryEntry(t, price_data, event_type))
    IN  IF Len(appended) > HistoryCap THEN LastN(appended, HistoryCap)
        ELSE appended


-----------------------------------------------------------------------------
(* Monitor orchestrator (OilPriceMonitor). *)

\* The responses the monitor's poller is given.  The monitor never reads the
\* validators, so the responses of this set carry none.
MonitorBodies == SingleBodies \cup {EmptyArrayBody, MissingCycleBody, TieBody}

MonitorResponses ==
    {HttpResponse(200, b, None, None) : b \in MonitorBodies}
    \cup {HttpResponse(304, EmptyTextBody, None, None),
          HttpResponse(500, EmptyTextBody, None, None)}
    \cup {RequestFailure(e) : e \in RequestExceptions}

\* "not content"
Falsy(content) == content = None \/ content = EmptyTextBody

\* OilPriceMonitor.__init__ on a storage file.
Construct(file, read_ok, threshold) ==
    LET history == load_price_history(file, read_ok)
    IN  /\ price_history' = history
        /\ current_price' = initialize_current_price(history)
        /\ last_change_event' = None
        /\ monitoring_active' = FALSE
        /\ change_threshold' = threshold
        /\ http_client' = NewHttpClient

\* bot.py at start-up: no monitoring task (monitoring_task = None), no
\* unfinished task that the global no longer refers to, no command in
\* progress, the event loop free, no check_for_updates in flight.
NoTask == [pc |-> "none", wake |-> 0, must_cancel |-> FALSE]
NewBot ==
    [monitoring_task |-> NoTask, unreferenced |-> 0, check |-> "idle",
     running |-> "none", in_flight |-> {}]

Init ==
    /\ current_price = None
    /\ last_change_event = None
    /\ price_history = <<>>
    /\ monitoring_active = FALSE
    /\ change_threshold \in Thresholds
    /\ storage = AbsentFile
    /\ http_client = NewHttpClient
    /\ now = 0
    /\ call = [op |-> "__init__"]
    /\ bot = NewBot

\* Variant: an exception of the parser or the detector reaches the caller.
check_for_updates_propagates(held, last_event, history, threshold, file, client, response, outcome, t) ==
    LET fetched == fetch_oil_prices(client, response, t)
        unchanged == [current_price |-> held, last_change_event |-> last_event,
                      price_history |-> history, storage |-> file,
                      http_client |-> fetched.client, ret |-> None,
                      content |-> fetched.content,
                      appended |-> FALSE, path |-> "same_hash"]
    IN  IF ~fetched.has_changed
        THEN [unchanged EXCEPT !.path =
                 IF "error" \in DOMAIN fetched.response_info THEN "fetch_failed"
                 ELSE IF fetched.response_info.status_code = 304
                 THEN "not_modified" ELSE "same_hash"]
        ELSE IF Falsy(fetched.content)
        THEN [unchanged EXCEPT !.path = "no_content"]
        ELSE LET new_price_data == get_latest_price(fetched.content)
             IN  IF IsException(new_price_data)
                 THEN [unchanged EXCEPT !.path = "parse_failed", !.ret = new_price_data]
                 ELSE LET change_event ==
                              detect_price_change(held, new_price_data, threshold, t)
                      IN  IF IsException(change_event)
                          THEN [unchanged EXCEPT !.path = "detect_failed", !.ret = change_event]
                          ELSE IF change_event # None
                          THEN LET h == add_to_history(history, new_price_data,
                                                       change_event.event_type, t)
                               IN  [unchanged EXCEPT
                                       !.current_price = new_price_data,
                                       !.last_change_event = change_event,
                                       !.price_history = h,
                                       !.storage = save_price_history(h, t, outcome, file),
                                       !.ret = change_event,
                                       !.appended = TRUE,
                                       !.path = "event"]
                          ELSE IF held = None \/ new_price_data.cycle > held.cycle
                          THEN LET h == add_to_history(history, new_price_data,
                                                       "update", t)
                               IN  [unchanged EXCEPT
                                       !.current_price = new_price_data,
                                       !.price_history = h,
                                       !.storage = save_price_history(h, t, outcome, file),
                                       !.appended = TRUE,
                                       !.path = "silent_advance"]
                          ELSE [unchanged EXCEPT !.path = "stale"]

\* Variant: a payload that does not parse clears the held price and the history.
check_for_updates_parse_failure_resets(held, last_event, history, threshold, file, client, response, outcome, t) ==
    LET fetched == fetch_oil_prices(client, response, t)
        unchanged == [current_price |-> held, last_change_event |-> last_event,
                      price_history |-> history, storage |-> file,
                      http_client |-> fetched.client, ret |-> None,
                      content |-> fetched.content,
                      appended |-> FALSE, path |-> "same_hash"]
    IN  IF ~fetched.has_changed
        THEN [unchanged EXCEPT !.path =
                 IF "error" \in DOMAIN fetched.response_info THEN "fetch_failed"
                 ELSE IF fetched.response_info.status_code = 304
                 THEN "not_modified" ELSE "same_hash"]
        ELSE IF Falsy(fetched.content)
        THEN [unchanged EXCEPT !.path = "no_content"]
        ELSE LET new_price_data == get_latest_price(fetched.content)
             IN  IF IsException(new_price_data)
                 THEN [unchanged EXCEPT !.path = "parse_failed", !.current_price = None,
                                        !.price_history = <<>>]
                 ELSE LET change_event ==
                              detect_price_change(held, new_price_data, threshold, t)
                      IN  IF IsException(change_event)
                          THEN [unchanged EXCEPT !.path = "detect_failed"]
                          ELSE IF change_event # None
                          THEN LET h == add_to_history(history, new_price_data,
                                                       change_event.event_type, t)
                               IN  [unchanged EXCEPT
                                       !.current_price = new_price_data,
                                       !.last_change_event = change_event,
                                       !.price_history = h,
                                       !.storage = save_price_history(h, t, outcome, file),
                                       !.ret = change_event,
                                       !.appended = TRUE,
                                       !.path = "event"]
                          ELSE IF held = None \/ new_price_data.cycle > held.cycle
                          THEN LET h == add_to_history(history, new_price_data,
                                                       "update", t)
                               IN  [unchanged EXCEPT
                                       !.current_price = new_price_data,
                                       !.price_history = h,
                                       !.storage = save_price_history(h, t, outcome, file),
                                       !.appended = TRUE,
                                       !.path = "silent_advance"]
                          ELSE [unchanged EXCEPT !.path = "stale"]

\* Variant: a payload that does not parse leaves the poller as it was before the fetch.
check_for_updates_parse_failure_rolls_back(held, last_event, history, threshold, file, client, response, outcome, t) ==
    LET fetched == fetch_oil_prices(client, response, t)
        unchanged == [current_price |-> held, last_change_event |-> last_event,
                      price_history |-> history, storage |-> file,
                      http_client |-> fetched.client, ret |-> None,
                      content |-> fetched.content,
                      appended |-> FALSE, path |-> "same_hash"]
    IN  IF ~fetched.has_changed
        THEN [unchanged EXCEPT !.path =
                 IF "error" \in DOMAIN fetched.response_info THEN "fetch_failed"
                 ELSE IF fetched.response_info.status_code = 304
                 THEN "not_modified" ELSE "same_hash"]
        ELSE IF Falsy(fetched.content)
        THEN [unchanged EXCEPT !.path = "no_content"]
        ELSE LET new_price_data == get_latest_price(fetched.content)
             IN  IF IsException(new_price_data)
                 THEN [unchanged EXCEPT !.path = "parse_failed", !.http_client = client]
                 ELSE LET change_event ==
                              detect_price_change(held, new_price_data, threshold, t)
                      IN  IF IsException(change_event)
                          THEN [unchanged EXCEPT !.path = "detect_failed"]
                          ELSE IF change_event # None
                          THEN LET h == add_to_history(history, new_price_data,
                                                       change_event.event_type, t)
                               IN  [unchanged EXCEPT
                                       !.current_price = new_price_data,
                                       !.last_change_event = change_event,
                                       !.price_history = h,
                                       !.storage = save_price_history(h, t, outcome, file),
                                       !.ret = change_event,
                                       !.appended = TRUE,
                                       !.path = "event"]
                          ELSE IF held = None \/ new_price_data.cycle > held.cycle
                          THEN LET h == add_to_history(history, new_price_data,
                                                       "update", t)
                               IN  [unchanged EXCEPT
                                       !.current_price = new_price_data,
                                       !.price_history = h,
                                       !.storage = save_price_history(h, t, outcome, file),
                                       !.appended = TRUE,
                                       !.path = "silent_advance"]
                          ELSE [unchanged EXCEPT !.path = "stale"]

\* Variant: an event is returned and recorded but the held price stays.
check_for_updates_event_without_advance(held, last_event, history, threshold, file, client, response, outcome, t) ==
    LET fetched == fetch_oil_prices(client, response, t)
        unchanged == [current_price |-> held, last_change_event |-> last_event,
                      price_history |-> history, storage |-> file,
                      http_client |-> fetched.client, ret |-> None,
                      content |-> fetched.content,
                      appended |-> FALSE, path |-> "same_hash"]
    IN  IF ~fetched.has_changed
        THEN [unchanged EXCEPT !.path =
                 IF "error" \in DOMAIN fetched.response_info THEN "fetch_failed"
                 ELSE IF fetched.response_info.status_code = 304
                 THEN "not_modified" ELSE "same_hash"]
        ELSE IF Falsy(fetched.content)
        THEN [unchanged EXCEPT !.path = "no_content"]
        ELSE LET new_price_data == get_latest_price(fetched.content)
             IN  IF IsException(new_price_data)
                 THEN [unchanged EXCEPT !.path = "parse_failed"]
                 ELSE LET change_event ==
                              detect_price_change(held, new_price_data, threshold, t)
                      IN  IF IsException(change_event)
                          THEN [unchanged EXCEPT !.path = "detect_failed"]
                          ELSE IF change_event # None
                          THEN LET h == add_to_history(history, new_price_data,
                                                       change_event.event_type, t)
                               IN  [unchanged EXCEPT
                                       !.last_change_event = change_event,
                                       !.price_history = h,
                                       !.storage = save_price_history(h, t, outcome, file),
                                       !.ret = change_event,
                                       !.appended = TRUE,
                                       !.path = "event"]
                          ELSE IF held = None \/ new_price_data.cycle > held.cycle
                          THEN LET h == add_to_history(history, new_price_data,
                                                       "update", t)
                               IN  [unchanged EXCEPT
                                       !.current_price = new_price_data,
                                       !.price_history = h,
                                       !.storage = save_price_history(h, t, outcome, file),
                                       !.appended = TRUE,
                                       !.path = "silent_advance"]
                          ELSE [unchanged EXCEPT !.path = "stale"]

\* Variant: a price accepted without an event is not written to the history.
check_for_updates_silent_without_entry(held, last_event, history, threshold, file, client, response, outcome, t) ==
    LET fetched == fetch_oil_prices(client, response, t)
        unchanged == [current_price |-> held, last_change_event |-> last_event,
                      price_history |-> history, storage |-> file,
                      http_client |-> fetched.client, ret |-> None,
                      content |-> fetched.content,
                      appended |-> FALSE, path |-> "same_hash"]
    IN  IF ~fetched.has_changed
        THEN [unchanged EXCEPT !.path =
                 IF "error" \in DOMAIN fetched.response_info THEN "fetch_failed"
                 ELSE IF fetched.response_info.status_code = 304
                 THEN "not_modified" ELSE "same_hash"]
        ELSE IF Falsy(fetched.content)
        THEN [unchanged EXCEPT !.path = "no_content"]
        ELSE LET new_price_data == get_latest_price(fetched.content)
             IN  IF IsException(new_price_data)
                 THEN [unchanged EXCEPT !.path = "parse_failed"]
                 ELSE LET change_event ==
                              detect_price_change(held, new_price_data, threshold, t)
                      IN  IF IsException(change_event)
                          THEN [unchanged EXCEPT !.path = "detect_failed"]
                          ELSE IF change_event # None
                          THEN LET h == add_to_history(history, new_price_data,
                                                       change_event.event_type, t)
                               IN  [unchanged EXCEPT
                                       !.current_price = new_price_data,
                                       !.last_change_event = change_event,
                                       !.price_history = h,
                                       !.storage = save_price_history(h, t, outcome, file),
                                       !.ret = change_event,
                                       !.appended = TRUE,
                                       !.path = "event"]
                          ELSE IF held = None \/ new_price_data.cycle > held.cycle
                          THEN LET h == add_to_history(history, new_price_data,
                                                       "update", t)
                               IN  [unchanged EXCEPT
                                       !.current_price = new_price_data,
                                       !.path = "silent_advance"]
                          ELSE [unchanged EXCEPT !.path = "stale"]

\* Variant: an entry whose write fails is dropped from the in-memory history.
check_for_updates_write_failure_drops_entry(held, last_event, history, threshold, file, client, response, outcome, t) ==
    LET fetched == fetch_oil_prices(client, response, t)
        unchanged == [current_price |-> held, last_change_event |-> last_event,
                      price_history |-> history, storage |-> file,
                      http_client |-> fetched.client, ret |-> None,
                      content |-> fetched.content,
                      appended |-> FALSE, path |-> "same_hash"]
    IN  IF ~fetched.has_changed
        THEN [unchanged EXCEPT !.path =
                 IF "error" \in DOMAIN fetched.response_info THEN "fetch_failed"
                 ELSE IF fetched.response_info.status_code = 304
                 THEN "not_modified" ELSE "same_hash"]
        ELSE IF Falsy(fetched.content)
        THEN [unchanged EXCEPT !.path = "no_content"]
        ELSE LET new_price_data == get_latest_price(fetched.content)
             IN  IF IsException(new_price_data)
                 THEN [unchanged EXCEPT !.path = "parse_failed"]
                 ELSE LET change_event ==
                              detect_price_change(held, new_price_data, threshold, t)
                      IN  IF IsException(change_event)
                          THEN [unchanged EXCEPT !.path = "detect_failed"]
                          ELSE IF change_event # None
                          THEN LET h == add_to_history(history, new_price_data,
                                                       change_event.event_type, t)
                               IN  [unchanged EXCEPT
                                       !.current_price = new_price_data,
                                       !.last_change_event = change_event,
                                       !.price_history = IF outcome = "ok" THEN h ELSE history,
                                       !.storage = save_price_history(h, t, outcome, file),
                                       !.ret = change_event,
                                       !.appended = TRUE,
                                       !.path = "event"]
                          ELSE IF held = None \/ new_price_data.cycle > held.cycle
                          THEN LET h == add_to_history(history, new_price_data,
                                                       "update", t)
                               IN  [unchanged EXCEPT
                                       !.current_price = new_price_data,
                                       !.price_history = h,
                                       !.storage = save_price_history(h, t, outcome, file),
                                       !.appended = TRUE,
                                       !.path = "silent_advance"]
                          ELSE [unchanged EXCEPT !.path = "stale"]

\* What check_for_updates does when the request is answered by response at
\* time t and a write of the storage file ends as outcome: the monitor's
\* fields afterwards, the value returned (ret), the content the fetch returned
\* (content) and the branch taken (path).
check_for_updates(held, last_event, history, threshold, file, client, response, outcome, t) ==
    LET fetched == fetch_oil_prices(client, response, t)
        unchanged == [current_price |-> held, last_change_event |-> last_event,
                      price_history |-> history, storage |-> file,
                      http_client |-> fetched.client, ret |-> None,
                      content |-> fetched.content,
                      appended |-> FALSE, path |-> "same_hash"]
    IN  IF ~fetched.has_changed
        THEN [unchanged EXCEPT !.path =
                 IF "error" \in DOMAIN fetched.response_info THEN "fetch_failed"
                 ELSE IF fetched.response_info.status_code = 304
                 THEN "not_modified" ELSE "same_hash"]
        ELSE IF Falsy(fetched.content)
        THEN [unchanged EXCEPT !.path = "no_content"]
        ELSE LET new_price_data == get_latest_price(fetched.content)
             IN  IF IsException(new_price_data)
                 THEN [unchanged EXCEPT !.path = "parse_failed"]
                 ELSE LET change_event ==
                              detect_price_change(held, new_price_data, threshold, t)
                      IN  IF IsException(change_event)
                          THEN [unchanged EXCEPT !.path = "detect_failed"]
                          ELSE IF change_event # None
                          THEN LET h == add_to_history(history, new_price_data,
                                                       change_event.event_type, t)
                               IN  [unchanged EXCEPT
                                       !.current_price = new_price_data,
                                       !.last_change_event = change_event,
                                       !.price_history = h,
                                       !.storage = save_price_history(h, t, outcome, file),
                                       !.ret = change_event,
                                       !.appended = TRUE,
                                       !.path = "event"]
                          ELSE IF held = None \/ new_price_data.cycle > held.cycle
                          THEN LET h == add_to_history(history, new_price_data,
                                                       "update", t)
                               IN  [unchanged EXCEPT
                                       !.current_price = new_price_data,
                                       !.price_history = h,
                                       !.storage = save_price_history(h, t, outcome, file),
                                       !.appended = TRUE,
                                       !.path = "silent_advance"]
                          ELSE [unchanged EXCEPT !.path = "stale"]

\* One call of check_for_updates whose clock readings are t.
CheckForUpdatesAt(response, outcome, t) ==
    \E r \in {check_for_updates(current_price, last_change_event, price_history,
                                change_threshold, storage, http_client,
                                response, outcome, t)} :
        /\ r.http_client.last_response_time # http_client.last_response_time
              => t <= MaxTime
        /\ r.http_client.consecutive_no_changes <= MaxNoChange
        /\ Len(r.price_history) <= MaxHistory
        /\ outcome \in IF r.appended THEN SaveOutcomes ELSE {"ok"}
        /\ http_client' = r.http_client
        /\ now' = IF r.http_client.last_response_time # http_client.last_response_time
                  THEN t ELSE now
        /\ current_price' = r.current_price
        /\ last_change_event' = r.last_change_event
        /\ price_history' = r.price_history
        /\ storage' = r.storage
        /\ call' = [op |-> "check_for_updates", content |-> r.content,
                    outcome |-> outcome, path |-> r.path, ret |-> r.ret]
        /\ UNCHANGED <<monitoring_active, change_threshold, bot>>

\* One call of check_for_updates, a clock tick after the last stored reading.
CheckForUpdates(response, outcome) == CheckForUpdatesAt(response, outcome, now + 1)

\* reset_monitoring_state; remove_ok is whether os.remove succeeds.
ResetMonitoringState(remove_ok) ==
    /\ current_price' = None
    /\ last_change_event' = None
    /\ price_history' = <<>>
    /\ monitoring_active' = FALSE
    /\ http_client' = reset_polling_state(http_client)
    /\ storage' = IF storage.exists /\ remove_ok THEN AbsentFile ELSE storage
    /\ call' = [op |-> "reset_monitoring_state"]
    /\ UNCHANGED <<change_threshold, now, bot>>

\* start_monitoring: sets the flag, and changes nothing when it is set.
StartMonitoring ==
    /\ monitoring_active' = (IF monitoring_active THEN monitoring_active ELSE TRUE)
    /\ call' = [op |-> "start_monitoring"]
    /\ UNCHANGED <<current_price, last_change_event, price_history,
                   change_threshold, storage, http_client, now, bot>>

\* stop_monitoring: clears the flag, and changes nothing when it is clear.
StopMonitoring ==
    /\ monitoring_active' = (IF ~monitoring_active THEN monitoring_active ELSE FALSE)
    /\ call' = [op |-> "stop_monitoring"]
    /\ UNCHANGED <<current_price, last_change_event, price_history,
                   change_threshold, storage, http_client, now, bot>>

\* The process ends and a new monitor is constructed on the same storage file.
Restart(read_ok) ==
    /\ Construct(storage, read_ok, change_threshold)
    /\ call' = [op |-> "__init__"]
    /\ UNCHANGED <<storage, now, bot>>

Next ==
    \/ \E response \in MonitorResponses : CheckForUpdates(response, "ok")
    \/ ResetMonitoringState(TRUE)
    \/ Restart(TRUE)

Spec == Init /\ [][Next]_vars


-----------------------------------------------------------------------------
(* The monitor with an unreliable storage file: a write of the file can    *)
(* fail in open() or in json.dump, and os.remove and the read at            *)
(* construction can fail.  start_monitoring and stop_monitoring are called  *)
(* as well.                                                                 *)

StoreBodies ==
    {SingleBody(0, 1), SingleBody(1, 2), SingleBody(MaxPrice, MaxCycle)}
    \cup MalformedBodies \cup CollidingBodies

StoreResponses ==
    {HttpResponse(200, b, None, None) : b \in StoreBodies}
    \cup {HttpResponse(304, EmptyTextBody, None, None),
          HttpResponse(500, EmptyTextBody, None, None),
          RequestFailure("Timeout")}

NextStore ==
    \/ \E response \in StoreResponses, outcome \in SaveOutcomes :
          CheckForUpdates(response, outcome)
    \/ StartMonitoring
    \/ StopMonitoring
    \/ \E remove_ok \in BOOLEAN : ResetMonitoringState(remove_ok)
    \/ \E read_ok \in BOOLEAN : Restart(read_ok)

\* A fresh monitor with the default threshold (one hundredth) and no storage file.
InitStore == Init /\ change_threshold = 1

SpecStore == InitStore /\ [][NextStore]_vars

-----------------------------------------------------------------------------
(* The monitor under a coarse clock: two successive calls can read the same *)
(* value of time.time() (the clock's resolution exceeds the time between    *)
(* the calls, or the wall clock was set back in between).                   *)

ClockBodies == {SingleBody(1, 1), SingleBody(2, 2), SingleBody(MaxPrice, MaxCycle)}

ClockResponses ==
    {HttpResponse(200, b, None, None) : b \in ClockBodies}
    \cup {HttpResponse(304, EmptyTextBody, None, None)}

NextClock ==
    \/ \E response \in ClockResponses, t \in {now, now + 1} :
          CheckForUpdatesAt(response, "ok", t)
    \/ Restart(TRUE)

SpecClock == InitStore /\ [][NextClock]_vars

-----------------------------------------------------------------------------
(* The poller on its own: fetch_oil_prices and reset_polling_state called  *)
(* directly, with responses that carry validators.                         *)

ClientBodies == {SingleBody(1, 1), SingleBody(2, 2)} \cup CollidingBodies

\* The value of a validator header the server sends with a body.
Validator(header, body) == [header |-> header, of |-> body]

ClientResponses ==
    UNION {{HttpResponse(200, b, e, m) :
                e \in {None, Validator("ETag", b)},
                m \in {None, Validator("Last-Modified", b)}} : b \in ClientBodies}
    \cup {HttpResponse(code, EmptyTextBody, None, None) : code \in {304, 404, 500}}
    \cup {RequestFailure(e) : e \in RequestExceptions}

\* One call of fetch_oil_prices.
FetchOilPrices(response) ==
    \E r \in {fetch_oil_prices(http_client, response, now + 1)} :
        /\ r.has_changed => now < MaxTime
        /\ r.client.consecutive_no_changes <= MaxPolls
        /\ http_client' = r.client
        /\ now' = IF r.has_changed THEN now + 1 ELSE now
        /\ call' = [op |-> "fetch_oil_prices", response |-> response,
                    before |-> http_client, has_changed |-> r.has_changed,
                    content |-> r.content, response_info |-> r.response_info]
        /\ UNCHANGED <<current_price, last_change_event, price_history,
                       monitoring_active, change_threshold, storage, bot>>

ResetPollingState ==
    /\ http_client' = reset_polling_state(http_client)
    /\ call' = [op |-> "reset_polling_state"]
    /\ UNCHANGED <<current_price, last_change_event, price_history,
                   monitoring_active, change_threshold, storage, now, bot>>

NextClient ==
    \/ \E response \in ClientResponses : FetchOilPrices(response)
    \/ ResetPollingState

SpecClient == Init /\ [][NextClient]_vars

-----------------------------------------------------------------------------
(* The history store on its own: _add_to_history called directly, once per *)
(* clock tick, on a fresh store.  The n-th call appends StreamPoint(n).     *)

StreamPoint(n) == OilPriceData(n % (MaxPrice + 1), n)
StreamType(n) == IF n = 1 THEN "initial" ELSE "update"

\* One call of _add_to_history(price_data, event_type).
AddToHistory(price_data, event_type, outcome) ==
    /\ now < MaxAppends
    /\ now' = now + 1
    /\ \E h \in {add_to_history(price_history, price_data, event_type, now + 1)} :
          /\ price_history' = h
          /\ storage' = save_price_history(h, now + 1, outcome, storage)
    /\ call' = [op |-> "_add_to_history"]
    /\ UNCHANGED <<current_price, last_change_event, monitoring_active,
                   change_threshold, http_client, bot>>

NextHistory == AddToHistory(StreamPoint(now + 1), StreamType(now + 1), "ok")

SpecHistory == Init /\ [][NextHistory]_vars


-----------------------------------------------------------------------------
(* The detector called directly, as test_price_change_detection does,       *)
(* between calls of check_for_updates.                                      *)

\* Variant: a detected event is committed by the detector itself.
detect_price_change_call_commits(held, last_event, history, threshold, new_price_data, t) ==
    LET ret == detect_price_change(held, new_price_data, threshold, t)
    IN  [current_price |-> IF IsEvent(ret) THEN new_price_data ELSE held,
         last_change_event |-> IF IsEvent(ret) THEN ret ELSE last_event,
         price_history |-> history,
         ret |-> ret]

\* A call of _detect_price_change on a monitor: the monitor's fields after
\* the call and what the call returns or raises.  The method assigns no
\* attribute of the monitor.
detect_price_change_call(held, last_event, history, threshold, new_price_data, t) ==
    [current_price |-> held,
     last_change_event |-> last_event,
     price_history |-> history,
     ret |-> detect_price_change(held, new_price_data, threshold, t)]

DetectPoints == {OilPriceData(p, c) : p \in DetectPrices, c \in Cycles}

\* One direct call of _detect_price_change(new_price_data).
DetectPriceChange(new_price_data) ==
    \E r \in {detect_price_change_call(current_price, last_change_event,
                                        price_history, change_threshold,
                                        new_price_data, now + 1)} :
        /\ current_price' = r.current_price
        /\ last_change_event' = r.last_change_event
        /\ price_history' = r.price_history
        /\ call' = [op |-> "_detect_price_change", held |-> current_price,
                    new_price_data |-> new_price_data, ret |-> r.ret]
        /\ UNCHANGED <<monitoring_active, change_threshold, storage,
                       http_client, now, bot>>

NextDetect ==
    \/ \E response \in ClockResponses : CheckForUpdates(response, "ok")
    \/ \E new_price_data \in DetectPoints : DetectPriceChange(new_price_data)

SpecDetect == InitStore /\ [][NextDetect]_vars

-----------------------------------------------------------------------------
(* The Discord bot: the background monitoring task, the !monitor toggle     *)
(* and the !check command on one event loop.                                *)
(*                                                                          *)
(* bot.monitoring_task is the global monitoring_task: pc "none" is None,    *)
(* "created" a task that has not run yet, "fetching" a task inside          *)
(* check_for_updates, "notify" a task awaiting auto_rename_channel and      *)
(* send_price_update_notification, "sleep" a task awaiting asyncio.sleep    *)
(* until wake, "done" a finished task; must_cancel is a pending             *)
(* Task.cancel().  bot.check is the position of a !check command: "idle",   *)
(* "send" (awaiting the first ctx.send) or "fetching".  The except          *)
(* Exception branch of the loop is not reachable: check_for_updates and     *)
(* both notification coroutines swallow every Exception.                    *)

BotBodies == {SingleBody(1, 1), SingleBody(2, 2)}
BotResponses ==
    {HttpResponse(200, b, None, None) : b \in BotBodies}
        \cup {HttpResponse(304, EmptyTextBody, None, None)}

\* Variant: check_for_updates awaits its HTTP request.
Suspends_while_fetching(pc) == TRUE

\* The positions at which a coroutine is suspended at an await (or has not
\* started, or has ended).  Inside check_for_updates nothing is awaited: it
\* is a plain function and its requests call blocks the loop.
Suspends(pc) == pc # "fetching"

\* Who holds the event loop when coroutine who has reached pc.
Holder(who, pc) == IF Suspends(pc) THEN "none" ELSE who

Pending(task) == task.pc \notin {"none", "done"}

\* monitoring_task = asyncio.create_task(background_monitoring()): the
\* global refers to the new task; a task it referred to goes on unreferenced
\* if it has not finished.
create_task(b) ==
    [b EXCEPT !.monitoring_task = [pc |-> "created", wake |-> 0,
                                   must_cancel |-> FALSE],
              !.unreferenced = IF Pending(b.monitoring_task) THEN @ + 1 ELSE @]

\* Variant: a task is created whether or not one is running.
start_monitoring_task_unguarded(b) == create_task(b)

\* start_monitoring_task
start_monitoring_task(b) ==
    IF Pending(b.monitoring_task) THEN b ELSE create_task(b)

\* stop_monitoring_task
stop_monitoring_task(task) ==
    IF Pending(task) THEN [task EXCEPT !.must_cancel = TRUE] ELSE task

\* Variant: a woken task starts the next check whatever has been requested.
task_resume_ignores_stop(task, active) == "fetching"

\* background_monitoring woken before its first step or from asyncio.sleep:
\* a pending cancellation is raised at the await and leaves the loop,
\* otherwise the while condition decides.
task_resume(task, active) ==
    IF task.must_cancel THEN "done"
    ELSE IF active THEN "fetching" ELSE "done"

\* Variant: an exception in an iteration ends the task.
task_after_exception_ends(task, t) == [task EXCEPT !.pc = "done", !.wake = 0]

\* background_monitoring when an iteration raises an Exception at time t:
\* the error is logged and the task sleeps error_sleep seconds.
task_after_exception(task, t) ==
    [task EXCEPT !.pc = "sleep", !.wake = t + error_sleep]

\* Variant: the task sleeps only for the time the poller asks for.
sleep_time_no_default(client, t) ==
    LET next_poll == get_next_poll_time(client, t)
    IN  IF next_poll - t > 0 THEN next_poll - t ELSE 0

\* The seconds background_monitoring sleeps after a check at time t.
sleep_time(client, t) ==
    LET next_poll == get_next_poll_time(client, t)
        wait_time == IF next_poll - t > 0 THEN next_poll - t ELSE 0
    IN  IF wait_time > 0 THEN wait_time ELSE default_sleep

\* The !monitor command.
ToggleMonitoring ==
    /\ bot.running = "none"
    /\ IF monitoring_active
       THEN /\ monitoring_active' = FALSE
            /\ bot' = [bot EXCEPT !.monitoring_task = stop_monitoring_task(@)]
       ELSE /\ monitoring_active' = TRUE
            /\ bot' = start_monitoring_task(bot)
    /\ UNCHANGED <<current_price, last_change_event, price_history,
                   change_threshold, storage, http_client, now, call>>

\* The event loop runs the monitoring task up to its next await or into
\* check_for_updates.
TaskResume ==
    /\ bot.running = "none"
    /\ bot.monitoring_task.pc \in {"created", "sleep"}
    /\ bot.monitoring_task.pc = "sleep"
          => bot.monitoring_task.must_cancel \/ now >= bot.monitoring_task.wake
    /\ \E pc \in {task_resume(bot.monitoring_task, monitoring_active)} :
          bot' = [bot EXCEPT
                     !.monitoring_task.pc = pc,
                     !.in_flight = IF pc = "fetching" THEN @ \cup {"task"} ELSE @,
                     !.running = Holder("task", pc)]
    /\ UNCHANGED <<current_price, last_change_event, price_history,
                   monitoring_active, change_threshold, storage, http_client,
                   now, call>>

\* check_for_updates, called by who, is answered by response and returns r.
Returns(who, response, r) ==
    /\ bot.running \in {"none", who}
    /\ r.http_client.consecutive_no_changes <= MaxPolls
    /\ Len(r.price_history) <= MaxHistory
    /\ http_client' = r.http_client
    /\ current_price' = r.current_price
    /\ last_change_event' = r.last_change_event
    /\ price_history' = r.price_history
    /\ storage' = r.storage
    /\ call' = [op |-> "check_for_updates", content |-> r.content,
                outcome |-> "ok", path |-> r.path, ret |-> r.ret,
                by |-> who, at |-> now]
    /\ UNCHANGED <<monitoring_active, change_threshold, now>>

\* The check of the monitoring task returns; the task awaits the
\* notifications of an event or goes to sleep.
TaskCheck(response) ==
    /\ bot.monitoring_task.pc = "fetching"
    /\ \E r \in {check_for_updates(current_price, last_change_event, price_history,
                                   change_threshold, storage, http_client,
                                   response, "ok", now)} :
          /\ Returns("task", response, r)
          /\ bot' = [bot EXCEPT
                        !.monitoring_task.pc =
                            IF IsEvent(r.ret) THEN "notify" ELSE "sleep",
                        !.monitoring_task.wake =
                            IF IsEvent(r.ret) THEN 0
                            ELSE now + sleep_time(r.http_client, now),
                        !.in_flight = @ \ {"task"},
                        !.running = "none"]

\* The notifications of the monitoring task are done.
TaskNotified ==
    /\ bot.running = "none"
    /\ bot.monitoring_task.pc = "notify"
    /\ bot' = [bot EXCEPT
                  !.monitoring_task.pc =
                      IF bot.monitoring_task.must_cancel THEN "done" ELSE "sleep",
                  !.monitoring_task.wake =
                      IF bot.monitoring_task.must_cancel THEN 0
                      ELSE now + sleep_time(http_client, now)]
    /\ UNCHANGED <<current_price, last_change_event, price_history,
                   monitoring_active, change_threshold, storage, http_client,
                   now, call>>

\* A !check command arrives and awaits its first ctx.send.
CheckCommand ==
    /\ bot.running = "none"
    /\ bot.check = "idle"
    /\ bot' = [bot EXCEPT !.check = "send"]
    /\ UNCHANGED <<current_price, last_change_event, price_history,
                   monitoring_active, change_threshold, storage, http_client,
                   now, call>>

\* The !check command goes on into check_for_updates.
CheckResume ==
    /\ bot.running = "none"
    /\ bot.check = "send"
    /\ bot' = [bot EXCEPT !.check = "fetching",
                          !.in_flight = @ \cup {"check"},
                          !.running = Holder("check", "fetching")]
    /\ UNCHANGED <<current_price, last_change_event, price_history,
                   monitoring_active, change_threshold, storage, http_client,
                   now, call>>

\* The check of the !check command returns; the command replies and ends.
CheckReturn(response) ==
    /\ bot.check = "fetching"
    /\ \E r \in {check_for_updates(current_price, last_change_event, price_history,
                                   change_threshold, storage, http_client,
                                   response, "ok", now)} :
          /\ Returns("check", response, r)
          /\ bot' = [bot EXCEPT !.check = "idle",
                                !.in_flight = @ \ {"check"},
                                !.running = "none"]

\* A coroutine that the event loop can run now.  A task awaiting its
\* notifications and a command awaiting ctx.send wait for an answer of
\* Discord, which takes its time, unless a cancellation is pending: that is
\* raised at the await at once.
Ready ==
    \/ bot.check = "fetching"
    \/ bot.monitoring_task.pc \in {"created", "fetching"}
    \/ /\ bot.monitoring_task.pc = "notify"
       /\ bot.monitoring_task.must_cancel
    \/ /\ bot.monitoring_task.pc = "sleep"
       /\ bot.monitoring_task.must_cancel \/ now >= bot.monitoring_task.wake

\* The end of the model's time.
ClockEnd == MaxTicks * base_polling_interval

\* The time of the next clock reading: the wake-up of the sleeping task if
\* that comes within a base interval, a base interval from now otherwise.
NextTime ==
    IF /\ bot.monitoring_task.pc = "sleep"
       /\ bot.monitoring_task.wake > now
       /\ bot.monitoring_task.wake < now + base_polling_interval
    THEN bot.monitoring_task.wake
    ELSE now + base_polling_interval

\* Time passes while every coroutine is suspended: asleep, or awaiting an
\* answer of Discord.
Tick ==
    /\ bot.running = "none"
    /\ ~Ready
    /\ NextTime <= ClockEnd
    /\ now' = NextTime
    /\ UNCHANGED <<current_price, last_change_event, price_history,
                   monitoring_active, change_threshold, storage, http_client,
                   call, bot>>

\* on_ready: the client has connected again.  price_monitor is replaced by
\* create_monitor(), a monitor with the default threshold constructed on the
\* storage file; the monitoring task is left as it is.
OnReady ==
    /\ bot.running = "none"
    /\ Construct(storage, TRUE, 1)
    /\ call' = [op |-> "on_ready"]
    /\ UNCHANGED <<storage, now, bot>>

NextBot ==
    \/ OnReady
    \/ ToggleMonitoring
    \/ TaskResume
    \/ \E response \in BotResponses : TaskCheck(response)
    \/ TaskNotified
    \/ CheckCommand
    \/ CheckResume
    \/ \E response \in BotResponses : CheckReturn(response)
    \/ Tick

SpecBot == InitStore /\ [][NextBot]_vars

-----------------------------------------------------------------------------
(* The monitoring loop with its failures: requests that fail and an         *)
(* Exception raised while the task awaits its notifications (the rename and *)
(* notification coroutines log what they catch; what is left is an          *)
(* Exception of the interpreter such as MemoryError).  No !check commands.  *)

LoopResponses ==
    {HttpResponse(200, SingleBody(1, 1), None, None),
     HttpResponse(304, EmptyTextBody, None, None),
     RequestFailure("Timeout")}

\* An Exception is raised in the iteration, after the check.
TaskRaises ==
    /\ bot.running = "none"
    /\ bot.monitoring_task.pc = "notify"
    /\ ~bot.monitoring_task.must_cancel
    /\ bot' = [bot EXCEPT
                  !.monitoring_task = task_after_exception(@, now)]
    /\ call' = [op |-> "background_monitoring", raised |-> TRUE]
    /\ UNCHANGED <<current_price, last_change_event, price_history,
                   monitoring_active, change_threshold, storage, http_client,
                   now>>

NextLoop ==
    \/ OnReady
    \/ ToggleMonitoring
    \/ TaskResume
    \/ \E response \in LoopResponses : TaskCheck(response)
    \/ TaskNotified
    \/ TaskRaises
    \/ Tick

SpecLoop == InitStore /\ [][NextLoop]_vars

\* The event loop runs a coroutine that is ready, a request is answered,
\* and time goes on.
FairLoop ==
    /\ WF_vars(TaskResume)
    /\ WF_vars(\E response \in LoopResponses : TaskCheck(response))
    /\ WF_vars(TaskNotified \/ TaskRaises)
    /\ WF_vars(Tick)

SpecLoopFair == SpecLoop /\ FairLoop

-----------------------------------------------------------------------------
(* Properties. *)

Points == {OilPriceData(p, c) : p \in Prices, c \in Cycles}

\* The request is answered 200 with a body whose fingerprint is not the stored
\* one and which parses to a price point.
FetchesPoint(response) ==
    /\ response.kind = "response"
    /\ response.status_code = 200
    /\ calculate_content_hash(response.text) # http_client.last_content_hash
    /\ ~Falsy(response.text)
    /\ ~IsException(get_latest_price(response.text))

\* The step is a call of check_for_updates answered by response.
CheckStep(response) == CheckForUpdates(response, "ok")

\* The 200 response whose body is the content the fetch of the step returned.
FetchedResponse == HttpResponse(200, call'.content, None, None)

\* The step is a call of check_for_updates whose fetch returned a body.
FetchedBody ==
    /\ call'.op = "check_for_updates"
    /\ call'.content # None

(* C1: across a call of check_for_updates the cycle of current_price never  *)
(* decreases, and a current_price that is present stays present, whatever   *)
(* the fetch returns.                                                       *)
CycleMonotonicity ==
    [][(call'.op = "check_for_updates" /\ current_price # None)
          => (current_price' # None
              /\ current_price'.cycle >= current_price.cycle)]_vars

\* A fetch of an older cycle was ignored by a monitor that has accepted two prices.
CycleMonotonicityWitness ==
    /\ call.op = "check_for_updates"
    /\ call.path = "stale"
    /\ Len(price_history) >= 2
    /\ current_price.cycle = price_history[Len(price_history)].cycle

(* C2: with no current_price, a changed fetch that parses to P returns an   *)
(* 'initial' event with no old price and cycle, new price and cycle P,      *)
(* change 0 and percentage 0, for every threshold; afterwards               *)
(* current_price = P and last_change_event is that event.                   *)
InitialEventOnFirstPrice ==
    [][\A response \in MonitorResponses :
          (current_price = None /\ FetchesPoint(response) /\ CheckStep(response))
          => LET P == get_latest_price(response.text)
                 e == call'.ret
             IN  /\ IsEvent(e)
                 /\ e.event_type = "initial"
                 /\ e.old_price = None /\ e.old_cycle = None
                 /\ e.new_price = P.price /\ e.new_cycle = P.cycle
                 /\ e.price_change = 0
                 /\ e.price_change_percent.num = 0
                 /\ current_price' = P
                 /\ last_change_event' = e]_vars

\* An initial event was returned for a price far above the threshold's scale.
InitialEventWitness ==
    /\ call.op = "check_for_updates"
    /\ IsEvent(call.ret)
    /\ call.ret.event_type = "initial"
    /\ call.ret.new_price = MaxPrice
    /\ current_price = OilPriceData(call.ret.new_price, call.ret.new_cycle)
    /\ last_change_event = call.ret

(* C3: for a held price (p0, c0) with p0 # 0 and any point (p1, c1) with    *)
(* c1 > c0 and |p1 - p0| >= threshold, the detector returns an 'update'     *)
(* event with old (p0, c0), new (p1, c1), price_change = p1 - p0 and        *)
(* price_change_percent = 100 * (p1 - p0) / p0.                             *)
UpdateAtOrAboveThreshold ==
    \A P \in DetectPoints :
        (/\ current_price # None
         /\ current_price.price # 0
         /\ P.cycle > current_price.cycle
         /\ Abs(P.price - current_price.price) >= change_threshold)
        => LET e == detect_price_change(current_price, P, change_threshold, now + 1)
           IN  /\ IsEvent(e)
               /\ e.event_type = "update"
               /\ e.old_price = Just(current_price.price)
               /\ e.old_cycle = Just(current_price.cycle)
               /\ e.new_price = P.price
               /\ e.new_cycle = P.cycle
               /\ e.price_change = P.price - current_price.price
               /\ e.price_change_percent.den > 0
               /\ e.price_change_percent.num * current_price.price
                     = 100 * (P.price - current_price.price)
                           * e.price_change_percent.den

(* C4: with (p0, c0) held, a point (p1, c1) with c1 > c0 and                *)
(* |p1 - p0| < threshold makes check_for_updates return no event and leave  *)
(* last_change_event alone, and afterwards current_price = (p1, c1).        *)
ThresholdGating ==
    [][\A response \in MonitorResponses :
          (/\ current_price # None
           /\ FetchesPoint(response)
           /\ get_latest_price(response.text).cycle > current_price.cycle
           /\ Abs(get_latest_price(response.text).price - current_price.price)
                 < change_threshold
           /\ CheckStep(response))
          => /\ call'.ret = None
             /\ last_change_event' = last_change_event
             /\ current_price' = get_latest_price(response.text)]_vars

(* C5: with a price held, a point whose cycle is not above the held cycle   *)
(* makes check_for_updates return no event and leave current_price,         *)
(* last_change_event, price_history and the storage file as they were,      *)
(* whatever its price.                                                      *)
StaleCycleIgnored ==
    [][(/\ current_price # None
        /\ FetchedBody
        /\ FetchesPoint(FetchedResponse)
        /\ get_latest_price(FetchedResponse.text).cycle <= current_price.cycle
        /\ CheckStep(FetchedResponse))
          => /\ call'.ret = None
             /\ UNCHANGED <<current_price, last_change_event, price_history,
                            storage>>]_vars

\* A body of the held cycle with another price was fetched and ignored.
StaleCycleWitness ==
    /\ call.op = "check_for_updates"
    /\ call.path = "stale"
    /\ call.ret = None
    /\ LET P == get_latest_price(TieBody)
       IN  /\ http_client.last_content_hash = calculate_content_hash(TieBody)
           /\ current_price # None
           /\ current_price.cycle = P.cycle
           /\ current_price.price # P.price
    /\ storage = StoredFile([last_updated |-> price_history[Len(price_history)].timestamp,
                             total_entries |-> Len(price_history),
                             history |-> price_history])

(* C6: for every held price (0 included) and every threshold, a changed     *)
(* fetch that parses to a point of a higher cycle leaves current_price      *)
(* equal to that point.                                                     *)
NewerCycleAlwaysAccepted ==
    [][\A response \in MonitorResponses :
          (/\ current_price # None
           /\ FetchesPoint(response)
           /\ get_latest_price(response.text).cycle > current_price.cycle
           /\ CheckStep(response))
          => current_price' = get_latest_price(response.text)]_vars

(* C7: with a held price of exactly 0, change detection of a point of a     *)
(* newer cycle does not raise: its outcome is 'no event'.                   *)
ZeroPriceIsNoEvent ==
    \A P \in Points :
        (/\ current_price # None
         /\ current_price.price = 0
         /\ P.cycle > current_price.cycle)
        => detect_price_change(current_price, P, change_threshold, now + 1) = None

(* C8: a call of check_for_updates that fetches a 200 body leaves that      *)
(* body's fingerprint stored, and a call that fetches a 200 body whose      *)
(* fingerprint is the stored one returns no event and appends nothing: the  *)
(* same payload fetched twice in a row yields neither two events nor two    *)
(* history entries.                                                         *)
IdempotentNoOp ==
    [][(FetchedBody /\ CheckStep(FetchedResponse))
          => /\ http_client'.last_content_hash
                   = calculate_content_hash(FetchedResponse.text)
             /\ (calculate_content_hash(FetchedResponse.text)
                     = http_client.last_content_hash)
                   => /\ call'.ret = None
                      /\ price_history' = price_history
                      /\ storage' = storage]_vars

\* The body of the initial event was fetched again, by the very next call.
IdempotentNoOpWitness ==
    /\ call.op = "check_for_updates"
    /\ call.path = "same_hash"
    /\ call.ret = None
    /\ Len(price_history) = 1
    /\ last_change_event # None
    /\ last_change_event.event_type = "initial"
    /\ http_client.last_response_time = Just(last_change_event.timestamp)
    /\ http_client.consecutive_no_changes = 1

-----------------------------------------------------------------------------
(* C9: on a fresh store, after n appends the history holds min(n, 1000)     *)
(* entries, and they are the most recently appended ones in append order.   *)
HistoryCapKeepsNewest ==
    LET n == now
        k == IF n > HistoryCap THEN HistoryCap ELSE n
    IN  /\ Len(price_history) = k
        /\ Len(price_history) <= 1000
        /\ \A i \in 1..k :
              price_history[i] = HistoryEntry(n - k + i, StreamPoint(n - k + i),
                                              StreamType(n - k + i))

\* More than 1000 entries were appended and the oldest were evicted.
HistoryCapWitness ==
    /\ call.op = "_add_to_history"
    /\ now > HistoryCap + 1
    /\ Len(price_history) = HistoryCap
    /\ price_history[1].cycle = now - HistoryCap + 1

(* C10: a no-change fetch (304, or 200 with the stored fingerprint) adds    *)
(* one to the counter, and the interval is 3 x base exactly when the        *)
(* counter has reached 3, so three no-change fetches from a counter of 0    *)
(* relax it and fewer do not; a changed fetch sets the interval to base and *)
(* the counter to 0 in that same call.                                      *)
AdaptiveInterval ==
    [][\A response \in ClientResponses :
          FetchOilPrices(response)
          => LET same == /\ response.kind = "response"
                         /\ response.status_code = 200
                         /\ calculate_content_hash(response.text)
                               = http_client.last_content_hash
                 differs == /\ response.kind = "response"
                            /\ response.status_code = 200
                            /\ calculate_content_hash(response.text)
                                  # http_client.last_content_hash
                 not_modified == /\ response.kind = "response"
                                 /\ response.status_code = 304
                 n == http_client.consecutive_no_changes
             IN  /\ (same \/ not_modified)
                       => /\ http_client'.consecutive_no_changes = n + 1
                          /\ http_client'.current_polling_interval
                                = IF n + 1 >= 3 THEN 3 * base_polling_interval
                                  ELSE base_polling_interval
                 /\ differs
                       => /\ http_client'.consecutive_no_changes = 0
                          /\ http_client'.current_polling_interval
                                = base_polling_interval]_vars

\* A changed fetch right after the third no-change fetch reset the interval.
AdaptiveIntervalWitness ==
    /\ call.op = "fetch_oil_prices"
    /\ call.has_changed
    /\ call.before.consecutive_no_changes = 3
    /\ call.before.current_polling_interval = 3 * base_polling_interval
    /\ http_client.consecutive_no_changes = 0
    /\ http_client.current_polling_interval = base_polling_interval

-----------------------------------------------------------------------------
\* The fetch of the step changed nothing in the poller's view: a 304, a 200
\* with the stored fingerprint, or a failed fetch.
NoChangeOrFailedFetch ==
    /\ call'.op = "fetch_oil_prices"
    /\ ~call'.has_changed

(* C11: the polling interval is always base or 3 x base, and it is 3 x base *)
(* exactly when the no-change counter is at least 3; once relaxed it stays  *)
(* relaxed across no-change and failed fetches, until a changed fetch or a  *)
(* reset.                                                                   *)
TwoStateRateLimiter ==
    /\ [](/\ http_client.current_polling_interval
                \in {base_polling_interval, 3 * base_polling_interval}
          /\ (http_client.current_polling_interval = 3 * base_polling_interval)
                <=> (http_client.consecutive_no_changes >= 3))
    /\ [][(/\ http_client.current_polling_interval = 3 * base_polling_interval
           /\ NoChangeOrFailedFetch)
          => http_client'.current_polling_interval
                = 3 * base_polling_interval]_vars

\* A relaxed poller stayed relaxed across a failed fetch.
TwoStateRateLimiterWitness ==
    /\ call.op = "fetch_oil_prices"
    /\ "error" \in DOMAIN call.response_info
    /\ call.before.current_polling_interval = 3 * base_polling_interval
    /\ call.before.consecutive_no_changes > 3
    /\ http_client.current_polling_interval = 3 * base_polling_interval

-----------------------------------------------------------------------------
(* C12: check_for_updates never hands an exception to its caller: whatever  *)
(* the fetch returns (an error, a timeout, an unexpected status), whether   *)
(* parsing or detection fails, and whether the write of the storage file    *)
(* fails, the value returned is an event or None.                           *)
NeverPropagates ==
    call.op = "check_for_updates" => (call.ret = None \/ IsEvent(call.ret))

\* An event was returned by a call whose write of the storage file failed
\* in json.dump.
NeverPropagatesWitness ==
    /\ call.op = "check_for_updates"
    /\ call.outcome = "dump_failed"
    /\ storage = CorruptFile
    /\ IsEvent(call.ret)
    /\ price_history # <<>>

-----------------------------------------------------------------------------
(* C13: fetch_oil_prices never raises: for a status other than 200 and 304  *)
(* and for a timeout, a connection failure or any other exception of the    *)
(* request it returns has_changed = False, content = None and a             *)
(* response_info whose 'error' is set.                                      *)
FetchNeverRaises ==
    [][\A response \in ClientResponses :
          (/\ \/ response.kind # "response"
              \/ response.status_code \notin {200, 304}
           /\ FetchOilPrices(response))
          => /\ call'.has_changed = FALSE
             /\ call'.content = None
             /\ "error" \in DOMAIN call'.response_info
             /\ call'.response_info.error # <<>>]_vars

\* A poller that holds a fingerprint was answered with an unexpected status.
FetchNeverRaisesWitness ==
    /\ call.op = "fetch_oil_prices"
    /\ call.response.kind = "response"
    /\ call.response.status_code = 404
    /\ call.before.last_content_hash # None
    /\ ~call.has_changed
    /\ call.content = None
    /\ "error" \in DOMAIN call.response_info

-----------------------------------------------------------------------------
\* The request is answered 200 with a body whose fingerprint is not the stored
\* one and which the parser rejects.
FetchesMalformed(response) ==
    /\ response.kind = "response"
    /\ response.status_code = 200
    /\ calculate_content_hash(response.text) # http_client.last_content_hash
    /\ ~Falsy(response.text)
    /\ IsParseError(get_latest_price(response.text))

(* C14: when the fetched content is changed but does not parse (an empty    *)
(* array, a record without cycle, a text that is no JSON), check_for_updates *)
(* returns None and current_price, last_change_event, price_history and the *)
(* storage file are as they were before the call.                           *)
MalformedPayloadIgnored ==
    [][\A response \in StoreResponses :
          (FetchesMalformed(response) /\ CheckForUpdates(response, "ok"))
          => /\ call'.ret = None
             /\ UNCHANGED <<current_price, last_change_event, price_history,
                            storage>>]_vars

\* A record without cycle was fetched by a monitor that holds a price, an
\* event and a stored history.
MalformedPayloadWitness ==
    /\ call.op = "check_for_updates"
    /\ call.path = "parse_failed"
    /\ call.ret = None
    /\ http_client.last_content_hash = calculate_content_hash(MissingCycleBody)
    /\ current_price # None
    /\ last_change_event # None
    /\ price_history # <<>>
    /\ storage = StoredFile([last_updated |-> price_history[Len(price_history)].timestamp,
                             total_entries |-> Len(price_history),
                             history |-> price_history])

-----------------------------------------------------------------------------
(* C15: the fingerprint of a changed body is stored by the fetch, before    *)
(* the body is parsed, so a body that does not parse leaves its fingerprint *)
(* stored, and a fetch that returns the body of the stored fingerprint is   *)
(* reported as unchanged and returns before the parser is called.           *)
MalformedNotRetried ==
    [][\A response \in StoreResponses :
          (/\ response.kind = "response"
           /\ response.status_code = 200
           /\ ~Falsy(response.text)
           /\ IsParseError(get_latest_price(response.text))
           /\ CheckForUpdates(response, "ok"))
          => /\ http_client'.last_content_hash
                   = calculate_content_hash(response.text)
             /\ call'.path = IF calculate_content_hash(response.text)
                                  = http_client.last_content_hash
                             THEN "same_hash" ELSE "parse_failed"
             /\ call'.ret = None]_vars

\* The empty array was fetched again and reported as unchanged.
MalformedNotRetriedWitness ==
    /\ call.op = "check_for_updates"
    /\ call.path = "same_hash"
    /\ http_client.last_content_hash = calculate_content_hash(EmptyArrayBody)
    /\ http_client.consecutive_no_changes = 1
    /\ current_price # None

-----------------------------------------------------------------------------
(* C16: within one lifetime of a monitor, with no reset, the events that    *)
(* successive calls of check_for_updates return have strictly increasing    *)
(* new_cycle, so no cycle is reported by two events, and every 'update'     *)
(* event has new_cycle > old_cycle.  (last_change_event is the event        *)
(* returned last in this lifetime: construction and reset clear it.)        *)
OneEventPerTransition ==
    [][(call'.op = "check_for_updates" /\ IsEvent(call'.ret))
          => LET e == call'.ret
             IN  /\ e.event_type = "update"
                       => (e.old_cycle # None /\ e.new_cycle > e.old_cycle.value)
                 /\ last_change_event # None
                       => e.new_cycle > last_change_event.new_cycle]_vars

\* The initial event, an accepted price and then an update event for the
\* highest cycle.
OneEventPerTransitionWitness ==
    /\ call.op = "check_for_updates"
    /\ IsEvent(call.ret)
    /\ call.ret.event_type = "update"
    /\ call.ret.new_cycle = MaxCycle
    /\ Len(price_history) = 3
    /\ price_history[1].event_type = "initial"
    /\ price_history[2].cycle = call.ret.old_cycle.value
    /\ last_change_event = call.ret

-----------------------------------------------------------------------------
(* C17: an 'initial' event is returned only by a monitor that holds no      *)
(* price, has returned no event and has an empty history, which is so only  *)
(* after a construction without persisted history and after a reset; an    *)
(* event returned after another is an 'update'; a monitor constructed on a  *)
(* stored, non-empty history holds a price and a non-empty history, and the *)
(* history stays non-empty until a reset, so such a monitor never returns   *)
(* an 'initial' event.                                                      *)
InitialOnlyOnce ==
    /\ [][(call'.op = "check_for_updates" /\ IsEvent(call'.ret))
             => /\ call'.ret.event_type = "initial"
                      => /\ current_price = None
                         /\ last_change_event = None
                         /\ price_history = <<>>
                /\ last_change_event # None
                      => call'.ret.event_type = "update"]_vars
    /\ [][(/\ call'.op = "__init__"
           /\ storage.exists
           /\ "data" \in DOMAIN storage
           /\ storage.data.history # <<>>)
             => (current_price' # None /\ price_history' # <<>>)]_vars
    /\ [][(price_history # <<>> /\ call'.op # "reset_monitoring_state")
             => (price_history' # <<>> /\ current_price' # None)]_vars

\* An update event returned by a monitor whose history starts with the
\* initial entry.
InitialOnlyOnceWitness ==
    /\ call.op = "check_for_updates"
    /\ IsEvent(call.ret)
    /\ call.ret.event_type = "update"
    /\ Len(price_history) = 2
    /\ price_history[1].event_type = "initial"
    /\ price_history[2].event_type = "update"
    /\ storage.exists

-----------------------------------------------------------------------------
(* C18: a call of check_for_updates appends exactly one history entry if it *)
(* changes current_price and none if it does not; the entry carries the     *)
(* price and the cycle of the new current_price, and its kind is the kind   *)
(* of the event returned, or 'update' when no event is returned.            *)
HistoryRecordsAcceptedPrices ==
    [][call'.op = "check_for_updates"
          => IF current_price' # current_price
             THEN LET n == Len(price_history')
                  IN  /\ n >= 1
                      /\ SubSeq(price_history', 1, n - 1)
                            = LastN(price_history, HistoryCap - 1)
                      /\ price_history'[n].price = current_price'.price
                      /\ price_history'[n].cycle = current_price'.cycle
                      /\ price_history'[n].event_type
                            = IF IsEvent(call'.ret) THEN call'.ret.event_type
                              ELSE "update"
             ELSE /\ price_history' = price_history
                  /\ ~IsEvent(call'.ret)]_vars

\* A price of a newer cycle was accepted without an event and entered the
\* history as an update, after the initial entry.
HistoryRecordsWitness ==
    /\ call.op = "check_for_updates"
    /\ call.path = "silent_advance"
    /\ call.ret = None
    /\ Len(price_history) = 2
    /\ price_history[1].event_type = "initial"
    /\ price_history[2].event_type = "update"
    /\ price_history[2].price = current_price.price
    /\ price_history[2].cycle = current_price.cycle
    /\ price_history[2].price = price_history[1].price

-----------------------------------------------------------------------------
\* The monitor has accepted a price, its current_price is the entry appended
\* last, and the storage file holds the history as written by the last save.
AcceptedAndSaved ==
    /\ price_history # <<>>
    /\ current_price # None
    /\ current_price.price = price_history[Len(price_history)].price
    /\ current_price.cycle = price_history[Len(price_history)].cycle
    /\ storage.exists
    /\ "data" \in DOMAIN storage
    /\ storage.data.history = price_history

(* C19: when a monitor has accepted a price and its writes of the storage   *)
(* file succeeded, a monitor constructed on the same file starts with       *)
(* current_price equal to the entry appended last, which is the previous    *)
(* monitor's current_price, and with the same history.                      *)
WarmStartRoundTrip ==
    [][(AcceptedAndSaved /\ call'.op = "__init__")
          => /\ price_history' = price_history
             /\ current_price' = current_price
             /\ current_price'.price = price_history[Len(price_history)].price
             /\ current_price'.cycle = price_history[Len(price_history)].cycle]_vars

-----------------------------------------------------------------------------
(* C20: constructing a monitor when the storage file is absent, when it     *)
(* cannot be decoded or when reading it fails completes and yields an empty *)
(* history and no current_price.                                            *)
UnreadableStorageNotFatal ==
    [][\A read_ok \in BOOLEAN :
          (/\ \/ ~storage.exists
              \/ "corrupt" \in DOMAIN storage
              \/ ~read_ok
           /\ Restart(read_ok))
          => /\ call'.op = "__init__"
             /\ price_history' = <<>>
             /\ current_price' = None
             /\ last_change_event' = None]_vars

\* A monitor was constructed on a file that holds a history and could not
\* be read.
UnreadableStorageWitness ==
    /\ call.op = "__init__"
    /\ storage.exists
    /\ "data" \in DOMAIN storage
    /\ storage.data.history # <<>>
    /\ price_history = <<>>
    /\ current_price = None

-----------------------------------------------------------------------------
\* The step is a call of check_for_updates that appended to the history.
AppendStep ==
    /\ call'.op = "check_for_updates"
    /\ call'.path \in {"event", "silent_advance"}

(* C21: when the write of the storage file fails during an append, the call *)
(* returns what it would have returned had the write succeeded (an event or *)
(* None, never an exception), and the in-memory history and current_price   *)
(* are as after a successful write, the new entry included; and an append   *)
(* whose write succeeds stores every entry the in-memory history held       *)
(* before the call, those whose write failed included.                      *)
WriteFailureBestEffort ==
    [][AppendStep
          => LET ok == check_for_updates(current_price, last_change_event,
                                         price_history, change_threshold, storage,
                                         http_client, FetchedResponse, "ok", now + 1)
                 n == Len(price_history')
             IN  /\ (call'.ret = None \/ IsEvent(call'.ret))
                 /\ call'.ret = ok.ret
                 /\ price_history' = ok.price_history
                 /\ current_price' = ok.current_price
                 /\ n >= 1
                 /\ SubSeq(price_history', 1, n - 1)
                       = LastN(price_history, HistoryCap - 1)
                 /\ call'.outcome = "ok"
                       => /\ "data" \in DOMAIN storage'
                          /\ SubSeq(storage'.data.history, 1, n - 1)
                                = LastN(price_history, HistoryCap - 1)]_vars

\* An update event was returned by a call whose write failed in open(): the
\* entry is in memory and the file still holds the history without it.
WriteFailureWitness ==
    /\ call.op = "check_for_updates"
    /\ call.outcome = "open_failed"
    /\ IsEvent(call.ret)
    /\ call.ret.event_type = "update"
    /\ Len(price_history) = 2
    /\ "data" \in DOMAIN storage
    /\ Len(storage.data.history) = 1
    /\ storage.data.history[1] = price_history[1]

-----------------------------------------------------------------------------
(* C22: after every append whose write succeeds, the 'history' of the       *)
(* storage file is the whole capped in-memory history and total_entries is  *)
(* its length.                                                              *)
DurableAppend ==
    call.op = "_add_to_history"
        => /\ storage.exists
           /\ "data" \in DOMAIN storage
           /\ storage.data.history = price_history
           /\ storage.data.total_entries = Len(price_history)
           /\ Len(storage.data.history) <= HistoryCap

\* The file holds the capped history after the oldest entries were evicted.
DurableAppendWitness ==
    /\ call.op = "_add_to_history"
    /\ now > HistoryCap
    /\ storage.data.total_entries = HistoryCap
    /\ storage.data.history[1] = price_history[1]
    /\ storage.data.history[1].cycle = now - HistoryCap + 1
    /\ storage.data.history[HistoryCap].cycle = now

-----------------------------------------------------------------------------
(* C23: after reset_monitoring_state, current_price and last_change_event   *)
(* are absent, the history is empty, the storage file no longer exists,     *)
(* monitoring_active is false and the poller equals a newly constructed     *)
(* one; so the next fetch of a 200 body that parses, even the one seen      *)
(* before the reset, is reported as changed and yields an 'initial' event.  *)
ResetReturnsToFresh ==
    /\ [][call'.op = "reset_monitoring_state"
             => /\ current_price' = None
                /\ last_change_event' = None
                /\ price_history' = <<>>
                /\ storage' = AbsentFile
                /\ monitoring_active' = FALSE
                /\ http_client' = NewHttpClient]_vars
    /\ [][(/\ call.op = "reset_monitoring_state"
           /\ FetchedBody
           /\ ~IsParseError(get_latest_price(FetchedResponse.text))
           /\ CheckStep(FetchedResponse))
             => (IsEvent(call'.ret) /\ call'.ret.event_type = "initial")]_vars

-----------------------------------------------------------------------------
(* C24: a 304 response makes fetch_oil_prices return has_changed = False    *)
(* and no content, adds one to the no-change counter and leaves the stored  *)
(* fingerprint and validators as they were.                                 *)
NotModifiedHandling ==
    [][\A response \in ClientResponses :
          (/\ response.kind = "response"
           /\ response.status_code = 304
           /\ FetchOilPrices(response))
          => /\ call'.has_changed = FALSE
             /\ call'.content = None
             /\ http_client'.consecutive_no_changes
                   = http_client.consecutive_no_changes + 1
             /\ http_client'.last_content_hash = http_client.last_content_hash
             /\ http_client'.last_etag = http_client.last_etag
             /\ http_client'.last_modified = http_client.last_modified]_vars

\* A poller that holds a fingerprint and both validators was answered 304.
NotModifiedWitness ==
    /\ call.op = "fetch_oil_prices"
    /\ call.response.kind = "response"
    /\ call.response.status_code = 304
    /\ call.before.last_content_hash # None
    /\ call.before.last_etag # None
    /\ call.before.last_modified # None
    /\ http_client.last_etag = call.before.last_etag
    /\ http_client.consecutive_no_changes = call.before.consecutive_no_changes + 1

(* C25: for a 200 response has_changed is true exactly when the body's      *)
(* fingerprint differs from the stored one (always when none is stored);    *)
(* when changed, the new fingerprint and the ETag and Last-Modified headers *)
(* that are present are stored, the counter is 0 and the interval is base;  *)
(* when unchanged, the counter grows by one and the fingerprint and the     *)
(* validators are untouched.                                                *)
OkHandling ==
    [][\A response \in ClientResponses :
          (/\ response.kind = "response"
           /\ response.status_code = 200
           /\ FetchOilPrices(response))
          => LET h == calculate_content_hash(response.text)
             IN  /\ call'.has_changed <=> (h # http_client.last_content_hash)
                 /\ http_client.last_content_hash = None => call'.has_changed
                 /\ call'.has_changed
                       => /\ http_client'.last_content_hash = h
                          /\ response.ETag # None
                                => http_client'.last_etag = response.ETag
                          /\ response.LastModified # None
                                => http_client'.last_modified = response.LastModified
                          /\ http_client'.consecutive_no_changes = 0
                          /\ http_client'.current_polling_interval
                                = base_polling_interval
                 /\ ~call'.has_changed
                       => /\ http_client'.consecutive_no_changes
                                = http_client.consecutive_no_changes + 1
                          /\ http_client'.last_content_hash
                                = http_client.last_content_hash
                          /\ http_client'.last_etag = http_client.last_etag
                          /\ http_client'.last_modified
                                = http_client.last_modified]_vars

\* A changed 200 response replaced the stored fingerprint and ETag.
OkHandlingWitness ==
    /\ call.op = "fetch_oil_prices"
    /\ call.response.kind = "response"
    /\ call.response.status_code = 200
    /\ call.has_changed
    /\ call.before.last_content_hash # None
    /\ call.before.last_etag # None
    /\ call.response.ETag # None
    /\ http_client.last_etag = call.response.ETag
    /\ http_client.last_etag # call.before.last_etag
    /\ http_client.last_content_hash = calculate_content_hash(call.response.text)

(* C26: in every result of fetch_oil_prices, content is the response body   *)
(* when has_changed is true and None when has_changed is false, a 200       *)
(* response with the stored fingerprint included.                           *)
ContentOnlyWithChange ==
    call.op = "fetch_oil_prices"
        => IF call.has_changed THEN call.content = call.response.text
           ELSE call.content = None

(* C27: get_next_poll_time() is now + base_polling_interval while the       *)
(* poller has received no response, and afterwards the time of the most     *)
(* recent response it received, changed or not, plus the current interval.  *)
(* In SpecBot every check is answered, at time call.at.                     *)
NextPollTime ==
    get_next_poll_time(http_client, now) =
        IF call.op # "check_for_updates"
        THEN now + base_polling_interval
        ELSE call.at + http_client.current_polling_interval

(* C28: the monitoring task and the !check commands of one event loop never *)
(* have more than one check_for_updates call in flight.                     *)
SerialChecks == Cardinality(bot.in_flight) <= 1

\* A !check command is inside check_for_updates while the monitoring task,
\* which has checked before, is due to wake up.
SerialChecksWitness ==
    /\ bot.in_flight = {"check"}
    /\ monitoring_active
    /\ bot.monitoring_task.pc = "sleep"
    /\ ~bot.monitoring_task.must_cancel
    /\ now >= bot.monitoring_task.wake

\* The monitoring task enters check_for_updates in this step.
TaskStartsCheck ==
    /\ bot.monitoring_task.pc # "fetching"
    /\ bot'.monitoring_task.pc = "fetching"

(* C29: once the !monitor toggle has stopped monitoring (stop_monitoring    *)
(* and stop_monitoring_task), the monitoring task starts no further         *)
(* check_for_updates call: it starts one only while monitoring is active    *)
(* and no cancellation of the task is pending.                              *)
CooperativeCancellation ==
    [][TaskStartsCheck
          => monitoring_active /\ ~bot.monitoring_task.must_cancel]_vars

\* A monitoring task that had checked and was stopped has ended, with
\* monitoring still off.
CooperativeCancellationWitness ==
    /\ ~monitoring_active
    /\ bot.monitoring_task.pc = "done"
    /\ bot.monitoring_task.must_cancel
    /\ call.op = "check_for_updates"
    /\ call.by = "task"

\* The monitoring task goes to sleep in this step.
TaskGoesToSleep ==
    /\ bot.monitoring_task.pc # "sleep"
    /\ bot'.monitoring_task.pc = "sleep"

(* C30: after each check the monitoring task sleeps until the poller's      *)
(* get_next_poll_time() (not at all when that time has come), and while the *)
(* poller is in relaxed mode the next background fetch is the relaxed       *)
(* interval after this one.                                                 *)
SchedulingFollowsPoller ==
    [][TaskGoesToSleep
          => LET next_poll == get_next_poll_time(http_client', now')
             IN  /\ bot'.monitoring_task.wake
                       = IF next_poll > now' THEN next_poll ELSE now'
                 /\ http_client'.current_polling_interval = relaxed_polling_interval
                       => bot'.monitoring_task.wake - now'
                             = relaxed_polling_interval]_vars

-----------------------------------------------------------------------------
(* C32: when fetch_oil_prices ends with an error result (a status other     *)
(* than 200 and 304, a timeout, a connection failure or another exception)  *)
(* the stored fingerprint, validators, last_response_time, no-change        *)
(* counter and polling interval are as they were before the call.           *)
FailedFetchLeavesPoller ==
    [][\A response \in ClientResponses :
          (/\ \/ response.kind # "response"
              \/ response.status_code \notin {200, 304}
           /\ FetchOilPrices(response))
          => http_client' = http_client]_vars

\* A request timed out for a poller that holds a fingerprint, validators and
\* a no-change count; the poller is as it was.
FailedFetchWitness ==
    /\ call.op = "fetch_oil_prices"
    /\ call.response.kind = "Timeout"
    /\ call.before.last_content_hash # None
    /\ call.before.last_etag # None
    /\ call.before.consecutive_no_changes = max_consecutive_no_changes - 1
    /\ http_client = call.before

(* C33: a held ETag and a held Last-Modified are the header values of the   *)
(* response whose body produced the stored fingerprint; no validator of an  *)
(* earlier body is kept, and sent, after the fingerprint has moved on.      *)
ValidatorsMatchFingerprint ==
    LET headers == prepare_conditional_headers(http_client)
    IN  /\ headers.IfNoneMatch # None
              => calculate_content_hash(headers.IfNoneMatch.of)
                     = http_client.last_content_hash
        /\ headers.IfModifiedNotSince # None
              => calculate_content_hash(headers.IfModifiedNotSince.of)
                     = http_client.last_content_hash

-----------------------------------------------------------------------------
(* C34: the cycles of the history entries strictly increase in append       *)
(* order, for a monitor that starts on an empty or a warm-started history   *)
(* and is driven through check_for_updates (and reset).                     *)
HistoryCyclesIncrease ==
    \A i \in 1..(Len(price_history) - 1) :
        price_history[i].cycle < price_history[i + 1].cycle

(* C35: after construction and after every check_for_updates or reset the   *)
(* history is empty exactly when current_price is None, and otherwise       *)
(* current_price has the price and the cycle of the last history entry.     *)
CurrentMirrorsTail ==
    /\ (price_history = <<>>) <=> (current_price = None)
    /\ price_history # <<>>
          => /\ current_price.price = price_history[Len(price_history)].price
             /\ current_price.cycle = price_history[Len(price_history)].cycle

-----------------------------------------------------------------------------
(* C39: _detect_price_change changes neither current_price nor              *)
(* last_change_event nor the history: its result is the comparison of the   *)
(* incoming point with the held price, successive calls with different      *)
(* points compare against the same held price, and current_price changes    *)
(* only in check_for_updates.                                               *)
DetectionSideEffectFree ==
    /\ [][call'.op = "_detect_price_change"
             => /\ UNCHANGED <<current_price, last_change_event, price_history,
                               storage, http_client>>
                /\ call'.held = current_price
                /\ call'.ret = detect_price_change(current_price,
                                                   call'.new_price_data,
                                                   change_threshold, now + 1)]_vars
    /\ [][(call.op = "_detect_price_change" /\ call'.op = "_detect_price_change")
             => call'.held = call.held]_vars
    /\ [][current_price' # current_price
             => call'.op = "check_for_updates"]_vars

\* The detector reported an update for a point of a newer cycle and the
\* monitor still holds the price it held before.
DetectionWitness ==
    /\ call.op = "_detect_price_change"
    /\ IsEvent(call.ret)
    /\ call.ret.event_type = "update"
    /\ call.held # None
    /\ current_price = call.held
    /\ call.new_price_data.cycle > current_price.cycle
    /\ last_change_event # call.ret

-----------------------------------------------------------------------------
(* C31: between two consecutive check_for_updates calls of the monitoring   *)
(* task there is a sleep of strictly positive duration, whatever the first  *)
(* call ended with: every sleep of the task ends later than it begins, and  *)
(* the task starts a check only as its first step or when such a sleep is   *)
(* over.                                                                    *)
NoHammering ==
    /\ [][TaskGoesToSleep => bot'.monitoring_task.wake > now']_vars
    /\ [][TaskStartsCheck
             => \/ bot.monitoring_task.pc = "created"
                \/ /\ bot.monitoring_task.pc = "sleep"
                   /\ now >= bot.monitoring_task.wake]_vars

\* The task has slept after a check whose request failed and is in its next
\* check.
NoHammeringWitness ==
    /\ bot.monitoring_task.pc = "fetching"
    /\ call.op = "check_for_updates"
    /\ call.by = "task"
    /\ call.path = "fetch_failed"
    /\ call.at < bot.monitoring_task.wake
    /\ now >= bot.monitoring_task.wake

\* The background_monitoring tasks that have not finished.
UnfinishedTasks ==
    bot.unreferenced + (IF Pending(bot.monitoring_task) THEN 1 ELSE 0)

(* C36: for any sequence of !monitor toggles at most one                    *)
(* background_monitoring task that has not finished exists.                 *)
AtMostOneTask == UnfinishedTasks <= 1

\* A task has checked and finished, and a later toggle has created the next
\* task.
AtMostOneTaskWitness ==
    /\ bot.monitoring_task.pc = "created"
    /\ monitoring_active
    /\ call.op = "check_for_updates"
    /\ call.by = "task"
    /\ UnfinishedTasks = 1

(* C37: whenever monitoring_active is true, after any interleaving of       *)
(* !monitor toggles with the steps of the task, a background_monitoring     *)
(* task exists that has not finished and has no cancellation pending.       *)
ActiveMeansPolling ==
    monitoring_active
        => /\ Pending(bot.monitoring_task)
           /\ ~bot.monitoring_task.must_cancel

\* The task sleeps beyond the end of the model's time.
ClockExhausted ==
    /\ bot.monitoring_task.pc = "sleep"
    /\ bot.monitoring_task.wake > ClockEnd

(* C38: while monitoring_active stays true and the task is not cancelled,   *)
(* every iteration of the monitoring loop, one in which an Exception was    *)
(* raised included, is eventually followed by another check_for_updates     *)
(* call (as long as the model's time lasts).                                *)
LoopSurvivesFailures ==
    (bot.monitoring_task.pc \in {"notify", "sleep"})
        ~> \/ bot.monitoring_task.pc = "fetching"
           \/ ~monitoring_active
           \/ bot.monitoring_task.must_cancel
           \/ ClockExhausted

\* After an iteration that raised an Exception the task, still active and
\* not cancelled, is in its next check.
LoopSurvivesWitness ==
    /\ bot.monitoring_task.pc = "fetching"
    /\ call.op = "background_monitoring"
    /\ call.raised
    /\ monitoring_active
    /\ ~bot.monitoring_task.must_cancel
    /\ ~ClockExhausted

=============================================================================
